---- MODULE Spec2Model ----
(***************************************************************************)
(* Buenos Aires data explorer: the terminal session (ckan2.py,             *)
(* MenuExplorer) and the dashboard pages (ba_explorer_app.py, main) over   *)
(* the CKAN catalog client.                                                *)
(*                                                                         *)
(* Text the program manipulates (queries, formats) is a sequence of        *)
(* one-character strings; text it only compares or prints is a string.     *)
(* A JSON key that may be missing is a record [k, v]: k = "absent" with a  *)
(* placeholder v, or k = "val" with the value.                             *)
(***************************************************************************)
EXTENDS Integers, Sequences, FiniteSets, TLC

VARIABLES
    running,           \* ejecutar's while-loop is still going
    opcion,            \* the menu option whose handler ran last
    current_datasets,  \* MenuExplorer.current_datasets
    reqs,              \* HTTP requests the last handler issued, in order
    printed,           \* lines the last handler printed, in order
    dataset,           \* local `dataset` of the last detail/download handler
    detailed_info,     \* local `detailed_info` of the last detail/download handler
    fs_ops,            \* what the last handler did to the file system, in order
    en_menu            \* the menu whose prompt is next: ejecutar's or the transport one

cli_vars ==
    <<running, opcion, current_datasets, reqs, printed, dataset, detailed_info, fs_ops, en_menu>>

VARIABLES
    ss_query,          \* st.session_state.query, when the key is there
    w_query,           \* the search box (st.text_input)
    w_rows,            \* the "Resultados" selectbox
    w_org,             \* the organization filter selectbox
    w_fmt,             \* the format filter selectbox
    df,                \* df of the last run of the search page
    df_filtered,       \* df_filtered of the last run
    df_twice,          \* the filters applied to df_filtered once more
    web_reqs,          \* HTTP requests the last run issued, in order
    web_out            \* st.success / st.warning / st.error lines of the last run

web_vars == <<ss_query, w_query, w_rows, w_org, w_fmt, df, df_filtered, df_twice,
              web_reqs, web_out>>

VARIABLES
    o_orgs,            \* an organization list as get_organizations returns it
    o_n,               \* how many organizations the caller keeps
    o_sorted           \* orgs_sorted of the caller

org_vars == <<o_orgs, o_n, o_sorted>>

VARIABLES
    f_in,              \* the arguments a function is tried on
    f_op,              \* the function applied last
    f_out              \* what it returned, or that it raised

VARIABLES
    d_pc,              \* where download_resource is: "idle", "loop", "done", "failed", "cancelled"
    d_body,            \* the body the server sends
    d_rest,            \* what of it response.read has not returned yet
    d_chunks,          \* what each response.read(8192) returned so far, in order
    d_file             \* the file at `filepath`, when there is one

dl_vars == <<d_pc, d_body, d_rest, d_chunks, d_file>>

VARIABLES
    sesiones,          \* the dashboard's sessions: each one's st.session_state and widgets
    activa,            \* the session whose script ran last
    cache,             \* the entries of process_datasets' st.cache_data
    apis               \* the attributes of the clients init_apis caches

ses_vars == <<sesiones, activa, cache, apis>>

fn_vars == <<f_in, f_op, f_out, dl_vars, ses_vars>>

vars == <<cli_vars, web_vars, org_vars, fn_vars>>

----------------------------------------------------------------------------
(* Bounds of the model *)

MaxDatasets == 2    \* longest ordinary result list an upstream response carries
MaxOrgs == 6        \* longest organization list handed to the sort
MaxWebDatasets == 1 \* longest result list a dashboard search receives

----------------------------------------------------------------------------
(* Text *)

Absent(d) == [k |-> "absent", v |-> d]
Val(x) == [k |-> "val", v |-> x]
\* a JSON key present with the value null
Null(d) == [k |-> "null", v |-> d]

\* dict.get(key, default)
Get(o, default) == IF o.k = "absent" THEN default ELSE o.v

\* bool(dict.get(key)) for a text or list value
Truthy(o) == o.k = "val" /\ o.v # <<>>

S_CSV == <<"C", "S", "V">>
S_csv == <<"c", "s", "v">>
S_PDF == <<"P", "D", "F">>
S_JSON == <<"J", "S", "O", "N">>
S_GeoJSON == <<"G", "e", "o", "J", "S", "O", "N">>
S_Excel == <<"E", "x", "c", "e", "l">>
S_NA == <<"N", "/", "A">>
S_salud == <<"s", "a", "l", "u", "d">>
S_organization == <<"o", "r", "g", "a", "n", "i", "z", "a", "t", "i", "o", "n", ":">>

UpperChar(c) ==
    CASE c = "c" -> "C" [] c = "s" -> "S" [] c = "v" -> "V" [] c = "e" -> "E"
      [] c = "o" -> "O" [] c = "x" -> "X" [] c = "l" -> "L" [] c = "a" -> "A"
      [] c = "d" -> "D" [] c = "u" -> "U" [] OTHER -> c

\* str.upper()
Upper(s) == [i \in 1..Len(s) |-> UpperChar(s[i])]

\* `t in s` for text
Contains(s, t) ==
    \E i \in 0..(Len(s) - Len(t)) : SubSeq(s, i + 1, i + Len(t)) = t

RECURSIVE LStrip(_)
LStrip(s) == IF s # <<>> /\ Head(s) = " " THEN LStrip(Tail(s)) ELSE s

RECURSIVE RStrip(_)
RStrip(s) ==
    IF s # <<>> /\ s[Len(s)] = " " THEN RStrip(SubSeq(s, 1, Len(s) - 1)) ELSE s

\* str.strip()
Strip(s) == RStrip(LStrip(s))

RECURSIVE Join(_, _)
\* sep.join(parts)
Join(parts, sep) ==
    IF parts = <<>> THEN <<>>
    ELSE IF Len(parts) = 1 THEN parts[1]
    ELSE parts[1] \o sep \o Join(Tail(parts), sep)

\* the sequences of length at most n over S
SeqsUpTo(S, n) == UNION {[1..m -> S] : m \in 0..n}

----------------------------------------------------------------------------
(* What the catalog sends *)

Resource(fmt, url) == [format |-> fmt, url |-> url]

Organization(title) == [title |-> title]

NoOrganization == Absent(Organization(Absent("")))

Dataset(id, name, org, resources) ==
    [id |-> id, name |-> name, organization |-> org, resources |-> resources]

D1 == Dataset(Val("d1"), "n1", Val(Organization(Val("OrgA"))),
              <<Resource(Val(S_CSV), Val("u1")), Resource(Val(S_CSV), Val(""))>>)
D2 == Dataset(Absent(""), "n2", Val(Organization(Val("OrgB"))),
              <<Resource(Val(S_csv), Absent("")), Resource(Val(S_PDF), Val("u2"))>>)
D3 == Dataset(Val("d3"), "n3", NoOrganization, <<>>)

\* a dataset whose second resource has "format": null
D4 == Dataset(Val("d4"), "n4", Val(Organization(Val("OrgA"))),
              <<Resource(Val(S_PDF), Val("u3")), Resource(Null(<<>>), Val("u4"))>>)

SampleDatasets == {D1, D2}

\* the result lists that hold a null field
NullLists == {<<D1, D4>>}

ROWS_TEMA == 20
ROWS_RECIENTES == 15
ROWS_ORGANIZACION == 20
ROWS_ESTADISTICAS == 1

\* result lists longer than the ordinary ones: ten results, and one more than
\* the row limit of the topic search
LongLens == {10, ROWS_TEMA + 1}

ResultLists ==
    SeqsUpTo(SampleDatasets, MaxDatasets) \cup {[i \in 1..n |-> D1] : n \in LongLens}
    \cup NullLists

TOTAL_MATCHES == 137

\* the `result` object of package_search
SearchDict(keys, count, results) == [keys |-> keys, count |-> count, results |-> results]

EmptyDict == SearchDict({}, 0, <<>>)

\* no match (count 0, no results), or a catalog of TOTAL_MATCHES matches that
\* sends one of `lists`; either key may be missing
SearchDictsOver(lists) ==
    {SearchDict({"count", "results"}, 0, <<>>), SearchDict({"count"}, TOTAL_MATCHES, <<>>)}
    \cup {SearchDict({"results"}, 0, l) : l \in lists}
    \cup {SearchDict({"count", "results"}, TOTAL_MATCHES, l) : l \in lists}

SearchDicts == SearchDictsOver(ResultLists)

\* result.get(key, default)
DictGet(d, key, default) ==
    IF key \notin d.keys THEN default
    ELSE IF key = "count" THEN d.count ELSE d.results

HttpCodes == {401, 429, 500}

\* One HTTP exchange as BuenosAiresCKAN.make_request meets it: urlopen raised
\* HTTPError ("http"), URLError ("url"), the body was no JSON ("json"), something
\* else was raised ("exc"), or a JSON object came back ("ok").  A timeout is
\* either wrapped by urlopen in URLError ("url_timeout", while connecting or
\* sending) or raised bare as socket.timeout ("read_timeout", while waiting for
\* or reading the response); "nonobject" is a body that decodes to a JSON array
\* or scalar.
Response(kind, code, success, error, result) ==
    [kind |-> kind, code |-> code, success |-> success, error |-> error, result |-> result]

\* the responses that carry no usable result, with `nothing` the placeholder result
FailedResponses(nothing) ==
    {Response("http", c, FALSE, Absent(""), Absent(nothing)) : c \in HttpCodes}
    \cup {Response(k, 0, FALSE, Absent(""), Absent(nothing)) : k \in {"url", "json", "exc"}}
    \cup {Response("ok", 200, FALSE, e, Absent(nothing)) : e \in {Absent(""), Val("Not found")}}

\* an empty JSON object or array
Empty(d) == [k |-> "empty", v |-> d]

\* success:true envelopes: result null or missing, result empty, or one of `results`
OkResponses(nothing, results) ==
    {Response("ok", 200, TRUE, Absent(""), r) : r \in {Absent(nothing), Empty(nothing)}}
    \cup {Response("ok", 200, TRUE, Absent(""), Val(r)) : r \in results}

SearchResponses == FailedResponses(EmptyDict) \cup OkResponses(EmptyDict, SearchDicts)

\* the answers to the one-row search of the statistics page
StatsResponses ==
    FailedResponses(EmptyDict) \cup OkResponses(EmptyDict, SearchDictsOver({<<>>, <<D1>>}))

----------------------------------------------------------------------------
(* BuenosAiresCKAN *)

Line(msg, n, s) == [msg |-> msg, n |-> n, s |-> s]

\* make_request printing a fixed text for a success:false envelope
make_request_out_sin_mensaje(resp) ==
    CASE resp.kind = "http" -> <<Line("Error HTTP", resp.code, "")>>
      [] resp.kind \in {"url", "url_timeout"} -> <<Line("Error de conexion", 0, "")>>
      [] resp.kind = "json" -> <<Line("Error al decodificar JSON", 0, "")>>
      [] resp.kind \in {"exc", "read_timeout", "nonobject"} -> <<Line("Error inesperado", 0, "")>>
      [] OTHER -> IF resp.success THEN <<>>
                  ELSE <<Line("Error en la API", 0, "Error desconocido")>>

\* what make_request prints
make_request_out(resp) ==
    CASE resp.kind = "http" -> <<Line("Error HTTP", resp.code, "")>>
      [] resp.kind \in {"url", "url_timeout"} -> <<Line("Error de conexion", 0, "")>>
      [] resp.kind = "json" -> <<Line("Error al decodificar JSON", 0, "")>>
      [] resp.kind \in {"exc", "read_timeout", "nonobject"} -> <<Line("Error inesperado", 0, "")>>
      [] OTHER -> IF resp.success THEN <<>>
                  ELSE <<Line("Error en la API", 0, Get(resp.error, "Error desconocido"))>>

\* what make_request returns: json_data.get('result') on success, else None
make_request(resp, nothing) ==
    IF resp.kind = "ok" /\ resp.success THEN resp.result ELSE Absent(nothing)

\* what RealTimeAPI.make_api_request prints: the two advisory lines follow the
\* generic one
make_api_request_out(resp) ==
    CASE resp.kind = "http" ->
             <<Line("Error HTTP", resp.code, "")>>
             \o (IF resp.code = 401 THEN <<Line("API requiere autenticacion", 0, "")>>
                 ELSE IF resp.code = 429 THEN <<Line("Limite de requests excedido", 0, "")>>
                 ELSE <<>>)
      [] resp.kind \in {"url", "url_timeout"} -> <<Line("Error de conexion", 0, "")>>
      [] resp.kind = "json" -> <<Line("Error al decodificar respuesta", 0, "")>>
      [] resp.kind \in {"exc", "read_timeout"} -> <<Line("Error inesperado", 0, "")>>
      [] OTHER -> <<>>

\* what RealTimeAPI.make_api_request returns: json.loads(data), whatever it is
make_api_request(resp, nothing) ==
    IF resp.kind \in {"ok", "nonobject"} THEN resp.result ELSE Absent(nothing)

\* the adapter call failed: an HTTP error, a connection failure, a malformed body
\* or a success:false envelope
Failed(resp) == ~(resp.kind = "ok" /\ resp.success)

\* search_packages: `result if result else {}`
search_packages(resp) ==
    LET result == make_request(resp, EmptyDict)
    IN  IF result.k = "val" THEN result.v ELSE EmptyDict

\* one HTTP exchange: the request as the adapter built it and what came back
Request(endpoint, q, rows, id, resp) ==
    [endpoint |-> endpoint, q |-> q, rows |-> rows, id |-> id, resp |-> resp,
     failed |-> Failed(resp)]

SearchRequest(query, rows, resp) == Request("package_search", query, rows, "", resp)

NoDataset == Absent(D3)

DetailResponses == FailedResponses(D3) \cup OkResponses(D3, SampleDatasets \cup {D3, D4})

\* get_package_info: make_request's result as it is
get_package_info(resp) ==
    LET result == make_request(resp, D3)
    IN  IF result.k = "val" THEN result ELSE NoDataset

DetailRequest(package_id, resp) == Request("package_show", <<>>, 0, package_id, resp)

\* the i-th organization of an upstream list: its slug tells its upstream position
OrgName(i) == [j \in 1..i |-> "o"]

Org(i, package_count) == [name |-> OrgName(i), package_count |-> package_count]

\* the organization lists of length 1..n with package counts among `counts`
OrgLists(n, counts) ==
    UNION {{[i \in 1..m |-> Org(i, c[i])] : c \in [1..m -> counts]} : m \in 1..n}

\* the organization lists a session meets: one organization; two in count order;
\* two that the sort swaps (a missing count sorts as 0)
SampleOrgLists ==
    {<<Org(1, Val(1))>>, <<Org(1, Val(1)), Org(2, Val(1))>>, <<Org(1, Absent(0)), Org(2, Val(1))>>}

OrgResponses == FailedResponses(<<>>) \cup OkResponses(<<>>, SampleOrgLists)

\* get_organizations: `result if result else []`
get_organizations(resp) ==
    LET result == make_request(resp, <<>>)
    IN  IF result.k = "val" THEN result.v ELSE <<>>

OrgRequest(resp) == Request("organization_list", <<>>, 0, "", resp)

----------------------------------------------------------------------------
(* MenuExplorer *)

\* resource.get('format', 'N/A').upper() raises AttributeError on a null format:
\* the first resource of the list that does so, 0 if none does
FirstNullFormat(resources) ==
    IF \E i \in 1..Len(resources) : resources[i].format.k = "null"
    THEN CHOOSE i \in 1..Len(resources) :
             /\ resources[i].format.k = "null"
             /\ \A j \in 1..(i - 1) : resources[j].format.k # "null"
    ELSE 0

\* the first dataset mostrar_lista_datasets raises on, 0 if there is none
FirstRaising(datasets) ==
    IF \E i \in 1..Len(datasets) : FirstNullFormat(datasets[i].resources) # 0
    THEN CHOOSE i \in 1..Len(datasets) :
             /\ FirstNullFormat(datasets[i].resources) # 0
             /\ \A j \in 1..(i - 1) : FirstNullFormat(datasets[j].resources) = 0
    ELSE 0

\* mostrar_lista_datasets raises
lista_raises(datasets) == FirstRaising(datasets) # 0

\* mostrar_lista_datasets: the datasets listed, up to the one it raises on
mostrar_lista_datasets(datasets) ==
    IF datasets = <<>> THEN <<Line("No hay datasets para mostrar.", 0, "")>>
    ELSE IF lista_raises(datasets) THEN <<Line("lista", FirstRaising(datasets) - 1, "")>>
    ELSE <<Line("lista", Len(datasets), "")>>

\* ejecutar without its `except Exception`: an exception of a handler ends the loop
ejecutar_sin_except(raised) == ~raised

\* ejecutar: `while True` goes on after a handler, also when `except Exception`
\* caught what the handler raised
ejecutar_sigue(raised) == TRUE

\* ejecutar: what `except Exception` prints
ejecutar_out(raised) ==
    IF raised THEN <<Line("Error inesperado", 0, ""), Line("Continuando...", 0, "")>>
    ELSE <<>>

\* buscar_por_tema without its early return: the results are stored whatever came back
tema_datasets_sin_retorno(result, current) == DictGet(result, "results", <<>>)

\* buscar_por_tema returning early also when the results list is empty
tema_datasets_vacio_retorna(result, current) ==
    IF result.keys = {} \/ DictGet(result, "results", <<>>) = <<>>
    THEN current ELSE DictGet(result, "results", <<>>)

\* the value buscar_por_tema leaves in self.current_datasets
tema_datasets(result, current) ==
    IF result.keys = {} THEN current ELSE DictGet(result, "results", <<>>)

\* what buscar_por_tema prints after the adapter returned
tema_out(result) ==
    IF result.keys = {} THEN <<Line("No se pudieron obtener resultados.", 0, "")>>
    ELSE <<Line("Encontrados", DictGet(result, "count", 0), "")>>
         \o mostrar_lista_datasets(DictGet(result, "results", <<>>))

TypedQueries == {<<>>, S_salud, <<" ">> \o S_salud \o <<" ">>, S_organization \o OrgName(1)}

buscar_por_tema(typed, resp) ==
    LET query == Strip(typed)
        result == search_packages(resp)
    IN  /\ running
        /\ en_menu = "principal"
        /\ UNCHANGED en_menu
        /\ opcion' = "1"
        /\ fs_ops' = <<>>
        /\ reqs' = <<SearchRequest(query, ROWS_TEMA, resp)>>
        /\ current_datasets' = tema_datasets(result, current_datasets)
        /\ printed' = make_request_out(resp) \o tema_out(result)
               \o ejecutar_out(lista_raises(DictGet(result, "results", <<>>)))
        /\ dataset' = NoDataset
        /\ detailed_info' = NoDataset
        /\ running' = ejecutar_sigue(lista_raises(DictGet(result, "results", <<>>)))

\* the value listar_recientes leaves in self.current_datasets
recientes_datasets(result, current) ==
    IF result.keys = {} THEN current ELSE DictGet(result, "results", <<>>)

recientes_out(result) ==
    IF result.keys = {} THEN <<Line("No se pudieron obtener los datasets.", 0, "")>>
    ELSE mostrar_lista_datasets(DictGet(result, "results", <<>>))

listar_recientes(resp) ==
    LET result == search_packages(resp)
    IN  /\ running
        /\ en_menu = "principal"
        /\ UNCHANGED en_menu
        /\ opcion' = "2"
        /\ fs_ops' = <<>>
        /\ reqs' = <<SearchRequest(<<>>, ROWS_RECIENTES, resp)>>
        /\ current_datasets' = recientes_datasets(result, current_datasets)
        /\ printed' = make_request_out(resp) \o recientes_out(result)
               \o ejecutar_out(lista_raises(DictGet(result, "results", <<>>)))
        /\ dataset' = NoDataset
        /\ detailed_info' = NoDataset
        /\ running' = ejecutar_sigue(lista_raises(DictGet(result, "results", <<>>)))

\* x.get('package_count', 0)
package_count(org) == Get(org.package_count, 0)

RECURSIVE InsertDescAntes(_, _)
\* org put before the organizations of `sorted` with the same count: a sort that
\* is not stable
InsertDescAntes(sorted, org) ==
    IF sorted = <<>> THEN <<org>>
    ELSE IF package_count(Head(sorted)) > package_count(org)
         THEN <<Head(sorted)>> \o InsertDescAntes(Tail(sorted), org)
         ELSE <<org>> \o sorted

RECURSIVE InsertDesc(_, _)
\* org put behind every organization of `sorted` whose count is not smaller
InsertDesc(sorted, org) ==
    IF sorted = <<>> THEN <<org>>
    ELSE IF package_count(Head(sorted)) >= package_count(org)
         THEN <<Head(sorted)>> \o InsertDesc(Tail(sorted), org)
         ELSE <<org>> \o sorted

RECURSIVE SortFrom(_, _, _)
SortFrom(orgs, i, sorted) ==
    IF i > Len(orgs) THEN sorted ELSE SortFrom(orgs, i + 1, InsertDesc(sorted, orgs[i]))

\* sorted(orgs, key=lambda x: x.get('package_count', 0), reverse=True)
sorted_orgs(orgs) == SortFrom(orgs, 1, <<>>)

Min(a, b) == IF a < b THEN a ELSE b

\* orgs_sorted: sorted(...)[:n]
top_orgs(orgs, n) == SubSeq(sorted_orgs(orgs), 1, Min(n, Len(orgs)))

TOP_MENU == 10
TOP_ESTADISTICAS == 5

\* what the user types at a "select one of 1..n" prompt: an integer or something else
Choice(int, n) == [int |-> int, n |-> n]

Choices(len) == {Choice(TRUE, n) : n \in {0, 1, len, len + 1}} \cup {Choice(FALSE, 0)}

InRange(choice, len) == choice.int /\ 1 <= choice.n /\ choice.n <= len

\* the value buscar_por_organizacion leaves in self.current_datasets
organizacion_datasets(result, current) ==
    IF result.keys = {} THEN current ELSE DictGet(result, "results", <<>>)

\* what buscar_por_organizacion prints after the adapter returned
organizacion_out(result) ==
    IF result.keys = {} THEN <<>>
    ELSE <<Line("Datasets de la organizacion:", 0, "")>>
         \o mostrar_lista_datasets(DictGet(result, "results", <<>>))

\* the query buscar_por_organizacion sends
organizacion_query(org_name) == S_organization \o org_name

\* buscar_por_organizacion, called with the organization chosen from the list
buscar_por_organizacion(org_name, resp, shown) ==
    LET result == search_packages(resp)
    IN  /\ reqs' = shown.reqs \o <<SearchRequest(organizacion_query(org_name), ROWS_ORGANIZACION, resp)>>
        /\ printed' = shown.printed \o make_request_out(resp) \o organizacion_out(result)
               \o ejecutar_out(lista_raises(DictGet(result, "results", <<>>)))
        /\ current_datasets' = organizacion_datasets(result, current_datasets)
        /\ running' = ejecutar_sigue(lista_raises(DictGet(result, "results", <<>>)))

ver_por_organizacion(orgsResp, choice) ==
    LET orgs == get_organizations(orgsResp)
        orgs_sorted == top_orgs(orgs, TOP_MENU)
        org_name == orgs_sorted[choice.n].name
        shown == [reqs |-> <<OrgRequest(orgsResp)>>,
                  printed |-> <<Line("Top 10 organizaciones", Len(orgs_sorted), "")>>]
    IN  /\ running
        /\ en_menu = "principal"
        /\ UNCHANGED en_menu
        /\ opcion' = "3"
        /\ fs_ops' = <<>>
        /\ dataset' = NoDataset
        /\ detailed_info' = NoDataset
        /\ IF orgs = <<>>
           THEN /\ reqs' = <<OrgRequest(orgsResp)>>
                /\ printed' = make_request_out(orgsResp)
                       \o <<Line("No se pudieron obtener las organizaciones.", 0, "")>>
                /\ running' = ejecutar_sigue(FALSE)
                /\ UNCHANGED current_datasets
           ELSE IF ~choice.int
           THEN /\ reqs' = <<OrgRequest(orgsResp)>>
                /\ printed' = <<Line("Top 10 organizaciones", Len(orgs_sorted), ""),
                                Line("Seleccion invalida.", 0, "")>>
                /\ running' = ejecutar_sigue(FALSE)
                /\ UNCHANGED current_datasets
           ELSE IF ~InRange(choice, Len(orgs_sorted))
           THEN /\ reqs' = <<OrgRequest(orgsResp)>>
                /\ printed' = <<Line("Top 10 organizaciones", Len(orgs_sorted), "")>>
                /\ running' = ejecutar_sigue(FALSE)
                /\ UNCHANGED current_datasets
           ELSE \E resp \in SearchResponses : buscar_por_organizacion(org_name, resp, shown)

\* the package id taken from the name alone
package_id_nombre(d) == d.name

\* package_id = dataset.get('id') or dataset.get('name')
package_id(d) == IF d.id.k = "val" /\ d.id.v # "" THEN d.id.v ELSE d.name

\* what mostrar_detalles_completos prints after the adapter returned
detalles_out(info) ==
    IF info.k # "val" THEN <<Line("No se pudo obtener informacion detallada.", 0, "")>>
    ELSE IF FirstNullFormat(info.v.resources) # 0
    THEN <<Line("detalles", FirstNullFormat(info.v.resources) - 1, info.v.name)>>
    ELSE <<Line("detalles", Len(info.v.resources), info.v.name)>>

\* mostrar_detalles_completos raises while it lists the resources
detalles_raises(info) == info.k = "val" /\ FirstNullFormat(info.v.resources) # 0

ver_detalles_dataset(choice, resp) ==
    /\ running
    /\ en_menu = "principal"
    /\ UNCHANGED en_menu
    /\ opcion' = "4"
    /\ fs_ops' = <<>>
    /\ UNCHANGED current_datasets
    /\ IF current_datasets = <<>>
       THEN /\ reqs' = <<>>
            /\ printed' = <<Line("Primero debes buscar datasets.", 0, "")>>
            /\ dataset' = NoDataset
            /\ detailed_info' = NoDataset
            /\ running' = ejecutar_sigue(FALSE)
       ELSE IF ~choice.int
       THEN /\ reqs' = <<>>
            /\ printed' = <<Line("Seleccion invalida.", 0, "")>>
            /\ dataset' = NoDataset
            /\ detailed_info' = NoDataset
            /\ running' = ejecutar_sigue(FALSE)
       ELSE IF ~InRange(choice, Len(current_datasets))
       THEN /\ reqs' = <<>>
            /\ printed' = <<>>
            /\ dataset' = NoDataset
            /\ detailed_info' = NoDataset
            /\ running' = ejecutar_sigue(FALSE)
       ELSE LET d == current_datasets[choice.n]
                info == get_package_info(resp)
            IN  /\ dataset' = Val(d)
                /\ reqs' = <<DetailRequest(package_id(d), resp)>>
                /\ detailed_info' = info
                /\ printed' = <<Line("Obteniendo detalles de", 0, package_id(d))>>
                       \o make_request_out(resp) \o detalles_out(info)
                       \o ejecutar_out(detalles_raises(info))
                /\ running' = ejecutar_sigue(detalles_raises(info))

\* one step of download_resource on the file system
FsOp(op, url) == [op |-> op, url |-> url]

\* what download_resource prints for the file called `filename`
download_resource_out(filename, resp) ==
    <<Line("Descargando", 0, filename),
      CASE resp.kind = "ok" -> Line("Descarga completada", 0, filename)
        [] resp.kind = "http" -> Line("Error HTTP al descargar", resp.code, filename)
        [] resp.kind \in {"url", "url_timeout"} -> Line("Error de conexion al descargar", 0, filename)
        [] OTHER -> Line("Error al descargar", 0, filename)>>

\* what download_resource returns
download_resource(resp) == resp.kind = "ok"

\* what download_resource does on the file system: os.makedirs first, the file
\* opened once urlopen returned
download_resource_fs(url, resp) ==
    <<FsOp("makedirs", "")>>
    \o (IF resp.kind \in {"ok", "read_timeout"} THEN <<FsOp("open", url)>> ELSE <<>>)

\* how a download ends: the body was written, or urlopen raised HTTPError
DownloadOutcomes ==
    {Response("ok", 200, TRUE, Absent(""), Absent(<<>>)),
     Response("http", 500, FALSE, Absent(""), Absent(<<>>))}

DownloadRequest(url, outcome) == Request("download", <<>>, 0, url, outcome)

\* descargar_recurso_individual asking once more after a failed download
individual_reqs_reintenta(resource, outcome) ==
    IF resource.url.k = "val" /\ resource.url.v # ""
    THEN IF outcome.kind = "ok"
         THEN <<DownloadRequest(resource.url.v, outcome)>>
         ELSE <<DownloadRequest(resource.url.v, outcome), DownloadRequest(resource.url.v, outcome)>>
    ELSE <<>>

\* descargar_recurso_individual without its test of the URL
individual_reqs_sin_comprobar(resource, outcome) ==
    <<DownloadRequest(Get(resource.url, ""), outcome)>>

\* descargar_recurso_individual: the request it issues, if any
individual_reqs(resource, outcome) ==
    IF resource.url.k = "val" /\ resource.url.v # ""
    THEN <<DownloadRequest(resource.url.v, outcome)>>
    ELSE <<>>

\* descargar_recurso_individual: what download_resource does on the file system
individual_fs(resource, outcome) ==
    IF resource.url.k = "val" /\ resource.url.v # ""
    THEN download_resource_fs(resource.url.v, outcome)
    ELSE <<>>

\* descargar_recurso_individual: what it and download_resource print
individual_out(resource, outcome) ==
    IF resource.url.k = "val" /\ resource.url.v # ""
    THEN download_resource_out(resource.url.v, outcome)
    ELSE <<Line("Este recurso no tiene URL de descarga.", 0, "")>>

RECURSIVE todos_reqs_se_detiene(_, _, _)
\* the loop giving up at the first resource without URL or failed download
todos_reqs_se_detiene(resources, outcomes, i) ==
    IF i > Len(resources) THEN <<>>
    ELSE IF individual_reqs(resources[i], outcomes[i]) = <<>> \/ outcomes[i].kind # "ok"
    THEN individual_reqs(resources[i], outcomes[i])
    ELSE individual_reqs(resources[i], outcomes[i])
         \o todos_reqs_se_detiene(resources, outcomes, i + 1)

RECURSIVE todos_reqs(_, _, _)
\* `for resource in resources: self.descargar_recurso_individual(...)`, from the i-th on
todos_reqs(resources, outcomes, i) ==
    IF i > Len(resources) THEN <<>>
    ELSE individual_reqs(resources[i], outcomes[i]) \o todos_reqs(resources, outcomes, i + 1)

RECURSIVE todos_fs(_, _, _)
todos_fs(resources, outcomes, i) ==
    IF i > Len(resources) THEN <<>>
    ELSE individual_fs(resources[i], outcomes[i]) \o todos_fs(resources, outcomes, i + 1)

RECURSIVE todos_out(_, _, _)
todos_out(resources, outcomes, i) ==
    IF i > Len(resources) THEN <<>>
    ELSE individual_out(resources[i], outcomes[i]) \o todos_out(resources, outcomes, i + 1)

\* descargar_recursos_dataset once the detail is there: the menu of resources,
\* the choice, the downloads
\* descargar_recursos_dataset raises while it lists the resources
descargar_raises(info) == info.k = "val" /\ FirstNullFormat(info.v.resources) # 0

descargar_recursos_dataset(info, shown) ==
    LET resources == info.resources
        menu == <<Line("RECURSOS DE", Len(resources), "")>>
        eleccion(choice) ==
            <<Line("Selecciona que descargar", IF choice.int THEN choice.n ELSE 0,
                   IF choice.int THEN "" ELSE "x")>>
    IN  IF resources = <<>>
        THEN /\ reqs' = shown.reqs
             /\ fs_ops' = <<>>
             /\ printed' = shown.printed
                    \o <<Line("Este dataset no tiene recursos para descargar.", 0, "")>>
        ELSE IF FirstNullFormat(resources) # 0
        THEN /\ reqs' = shown.reqs
             /\ fs_ops' = <<>>
             /\ printed' = shown.printed
                    \o <<Line("RECURSOS DE", FirstNullFormat(resources) - 1, "")>>
                    \o ejecutar_out(TRUE)
        ELSE \E choice \in Choices(Len(resources) + 1) :
               IF ~choice.int
               THEN /\ reqs' = shown.reqs
                    /\ fs_ops' = <<>>
                    /\ printed' = shown.printed \o menu \o eleccion(choice)
                           \o <<Line("Seleccion invalida.", 0, "")>>
               ELSE IF choice.n = Len(resources) + 1
               THEN \E outcomes \in [1..Len(resources) -> DownloadOutcomes] :
                      /\ reqs' = shown.reqs \o todos_reqs(resources, outcomes, 1)
                      /\ fs_ops' = todos_fs(resources, outcomes, 1)
                      /\ printed' = shown.printed \o menu \o eleccion(choice)
                             \o todos_out(resources, outcomes, 1)
               ELSE IF InRange(choice, Len(resources))
               THEN \E outcome \in DownloadOutcomes :
                      /\ reqs' = shown.reqs \o individual_reqs(resources[choice.n], outcome)
                      /\ fs_ops' = individual_fs(resources[choice.n], outcome)
                      /\ printed' = shown.printed \o menu \o eleccion(choice)
                             \o individual_out(resources[choice.n], outcome)
               ELSE /\ reqs' = shown.reqs
                    /\ fs_ops' = <<>>
                    /\ printed' = shown.printed \o menu \o eleccion(choice)

descargar_recursos(choice, resp) ==
    /\ running
    /\ en_menu = "principal"
    /\ UNCHANGED en_menu
    /\ opcion' = "5"
    /\ UNCHANGED current_datasets
    /\ IF current_datasets = <<>>
       THEN /\ reqs' = <<>>
            /\ fs_ops' = <<>>
            /\ printed' = <<Line("Primero debes buscar datasets.", 0, "")>>
            /\ dataset' = NoDataset
            /\ detailed_info' = NoDataset
            /\ running' = ejecutar_sigue(FALSE)
       ELSE IF ~choice.int
       THEN /\ reqs' = <<>>
            /\ fs_ops' = <<>>
            /\ printed' = <<Line("Seleccion invalida.", 0, "")>>
            /\ dataset' = NoDataset
            /\ detailed_info' = NoDataset
            /\ running' = ejecutar_sigue(FALSE)
       ELSE IF ~InRange(choice, Len(current_datasets))
       THEN /\ reqs' = <<>>
            /\ fs_ops' = <<>>
            /\ printed' = <<>>
            /\ dataset' = NoDataset
            /\ detailed_info' = NoDataset
            /\ running' = ejecutar_sigue(FALSE)
       ELSE LET d == current_datasets[choice.n]
                info == get_package_info(resp)
                shown == [reqs |-> <<DetailRequest(package_id(d), resp)>>,
                          printed |-> <<Line("Obteniendo recursos de", 0, package_id(d))>>
                                      \o make_request_out(resp)]
            IN  /\ dataset' = Val(d)
                /\ detailed_info' = info
                /\ running' = ejecutar_sigue(descargar_raises(info))
                /\ IF info.k # "val"
                   THEN /\ reqs' = shown.reqs
                        /\ fs_ops' = <<>>
                        /\ printed' = shown.printed
                               \o <<Line("No se pudo obtener informacion del dataset.", 0, "")>>
                   ELSE descargar_recursos_dataset(info.v, shown)

\* mostrar_estadisticas: the count line, then the organization lines
estadisticas_out(result, orgs) ==
    (IF result.keys = {} THEN <<>>
     ELSE <<Line("Total de datasets", DictGet(result, "count", 0), "")>>)
    \o (IF orgs = <<>> THEN <<>>
        ELSE <<Line("Total de organizaciones", Len(orgs), ""),
               Line("Top 5 organizaciones", Len(top_orgs(orgs, TOP_ESTADISTICAS)), "")>>)

mostrar_estadisticas(resp, orgsResp) ==
    /\ running
    /\ en_menu = "principal"
    /\ UNCHANGED en_menu
    /\ opcion' = "6"
    /\ fs_ops' = <<>>
    /\ reqs' = <<SearchRequest(<<>>, ROWS_ESTADISTICAS, resp), OrgRequest(orgsResp)>>
    /\ printed' = make_request_out(resp) \o make_request_out(orgsResp)
           \o estadisticas_out(search_packages(resp), get_organizations(orgsResp))
    /\ dataset' = NoDataset
    /\ detailed_info' = NoDataset
    /\ running' = ejecutar_sigue(FALSE)
    /\ UNCHANGED current_datasets

\* option 0 of ejecutar
salir ==
    /\ running
    /\ en_menu = "principal"
    /\ UNCHANGED en_menu
    /\ running' = FALSE
    /\ opcion' = "0"
    /\ fs_ops' = <<>>
    /\ reqs' = <<>>
    /\ printed' = <<Line("Hasta luego!", 0, "")>>
    /\ dataset' = NoDataset
    /\ detailed_info' = NoDataset
    /\ UNCHANGED current_datasets

\* ejecutar: KeyboardInterrupt at the prompt of the menu, no option was read
interrumpir ==
    /\ running
    /\ en_menu = "principal"
    /\ UNCHANGED en_menu
    /\ running' = FALSE
    /\ opcion' = ""
    /\ fs_ops' = <<>>
    /\ reqs' = <<>>
    /\ printed' = <<Line("Hasta luego!", 0, "")>>
    /\ dataset' = NoDataset
    /\ detailed_info' = NoDataset
    /\ UNCHANGED current_datasets

----------------------------------------------------------------------------
(* ba_explorer_app.py: process_datasets and the search page *)

S_Todos == <<"T", "o", "d", "o", "s">>
S_transporte == <<"t", "r", "a", "n", "s", "p", "o", "r", "t", "e">>

\* the orders in which iterating a set may yield its elements
Orders(S) ==
    {p \in [1..Cardinality(S) -> S] : \A i, j \in 1..Cardinality(S) : i # j => p[i] # p[j]}

\* formats = [r.get('format', 'N/A') for r in dataset['resources']]
formats_of(d) == [i \in 1..Len(d.resources) |-> Get(d.resources[i].format, S_NA)]

\* ', '.join(set(formats)) if formats else 'N/A', for each iteration order of the set
formatos_of(d) ==
    IF d.resources = <<>> THEN {S_NA}
    ELSE {Join(p, <<",", " ">>) : p \in Orders({formats_of(d)[i] : i \in 1..Len(d.resources)})}

\* org_name of process_datasets
org_name_of(d) ==
    IF d.organization.k = "val"
    THEN Get(d.organization.v.title, "Sin organizacion")
    ELSE "Sin organizacion"

Row(organizacion, num_recursos, formatos, id) ==
    [organizacion |-> organizacion, num_recursos |-> num_recursos,
     formatos |-> formatos, id |-> id]

\* the rows process_datasets may build for one dataset
rows_of(d) ==
    {Row(org_name_of(d), Len(d.resources), f, Get(d.id, "")) : f \in formatos_of(d)}

\* process_datasets: the tables it may return for package_search's result
process_datasets(datasets_data) ==
    IF datasets_data.keys = {} \/ "results" \notin datasets_data.keys THEN {<<>>}
    ELSE LET datasets == datasets_data.results
             all == UNION {rows_of(datasets[i]) : i \in 1..Len(datasets)}
         IN  {t \in [1..Len(datasets) -> all] :
                 \A i \in 1..Len(datasets) : t[i] \in rows_of(datasets[i])}

\* ["Todas"] + sorted(df['organizacion'].unique().tolist())
org_options(t) == {"Todas"} \cup {t[i].organizacion : i \in 1..Len(t)}

\* ["Todos", "CSV", "JSON", "PDF", "Excel"]
fmt_options == {S_Todos, S_CSV, S_JSON, S_PDF, S_Excel}

\* the filters with a slice that is off by one: the first row kept is dropped
\* whenever a filter is set
aplicar_filtros_desde_segunda(t, org_filter, format_filter) ==
    LET SameOrg(row) == row.organizacion = org_filter
        HasFormat(row) == Contains(row.formatos, format_filter)
        by_org == IF org_filter # "Todas" THEN SelectSeq(t, SameOrg) ELSE t
        kept == IF format_filter # S_Todos THEN SelectSeq(by_org, HasFormat) ELSE by_org
    IN  IF (org_filter # "Todas" \/ format_filter # S_Todos) /\ kept # <<>>
        THEN Tail(kept) ELSE kept

\* "Aplicar filtros": df_filtered from df
aplicar_filtros(t, org_filter, format_filter) ==
    LET SameOrg(row) == row.organizacion = org_filter
        HasFormat(row) == Contains(row.formatos, format_filter)
        by_org == IF org_filter # "Todas" THEN SelectSeq(t, SameOrg) ELSE t
    IN  IF format_filter # S_Todos THEN SelectSeq(by_org, HasFormat) ELSE by_org

ROWS_DEFAULT == 20
ROWS_SMALL == 10

\* the row limits the user picks, out of [10, 20, 50, 100]
RowsOptions == {ROWS_SMALL, ROWS_DEFAULT}

\* the topic buttons the user clicks, out of the eight of `temas`
Temas == {S_transporte, S_salud}

WebQueries == {<<>>, S_salud}

\* the answers to the searches of one dashboard session: an HTTP error, a
\* success:false envelope, or a success:true envelope
WebSearchResponses ==
    {Response("http", 500, FALSE, Absent(""), Absent(EmptyDict)),
     Response("ok", 200, FALSE, Val("Not found"), Absent(EmptyDict))}
    \cup OkResponses(EmptyDict, SearchDictsOver(SeqsUpTo(SampleDatasets, MaxWebDatasets)))

WebDetailResponses ==
    {Response("http", 500, FALSE, Absent(""), Absent(D3)),
     Response("ok", 200, TRUE, Absent(""), Val(D1))}

NoButton == Absent("")

\* the search box winning over the stored topic when something is typed
web_query_texto(ss, text) == IF text # <<>> \/ ss.k # "val" THEN text ELSE ss.v

\* `if 'query' in st.session_state: query = st.session_state.query`
web_query(ss, text) == IF ss.k = "val" THEN ss.v ELSE text

\* One run of the script on the search page, top to bottom, after the widgets
\* took the values text, rows, org_sel and fmt_sel: `buscar` says the "Buscar"
\* button was clicked, `detalles` which "Ver detalles completos" button was.
\* A selectbox that the previous run did not show, or showed with other options,
\* starts from its first option.
run_buscar(ss, text, rows, buscar, org_sel, fmt_sel, detalles, resp, dresp) ==
    LET query == web_query(ss, text)
        results == search_packages(resp)
    IN  /\ ss_query' = ss
        /\ w_query' = text
        /\ w_rows' = rows
        /\ UNCHANGED df_twice
        /\ IF ~(buscar \/ query # <<>>)
           THEN /\ web_reqs' = <<>>
                /\ web_out' = <<>>
                /\ df' = <<>>
                /\ df_filtered' = <<>>
                /\ w_org' = "Todas"
                /\ w_fmt' = S_Todos
           ELSE IF ~(results.keys # {} /\ DictGet(results, "results", <<>>) # <<>>)
           THEN /\ web_reqs' = <<SearchRequest(query, rows, resp)>>
                /\ web_out' = make_request_out(resp)
                       \o <<Line("No se encontraron resultados para tu busqueda.", 0, "")>>
                /\ df' = <<>>
                /\ df_filtered' = <<>>
                /\ w_org' = "Todas"
                /\ w_fmt' = S_Todos
           ELSE \E t \in process_datasets(results) :
                  LET org_filter == IF df # <<>> /\ org_options(t) = org_options(df)
                                    THEN org_sel ELSE "Todas"
                      format_filter == IF df # <<>> THEN fmt_sel ELSE S_Todos
                      shown == aplicar_filtros(t, org_filter, format_filter)
                      clicked == detalles.k = "val"
                                 /\ \E i \in 1..Len(shown) : shown[i].id = detalles.v
                  IN  /\ df' = t
                      /\ w_org' = org_filter
                      /\ w_fmt' = format_filter
                      /\ df_filtered' = shown
                      /\ web_reqs' = <<SearchRequest(query, rows, resp)>>
                             \o (IF clicked THEN <<DetailRequest(detalles.v, dresp)>> ELSE <<>>)
                      /\ web_out' = <<Line("Encontrados", DictGet(results, "count", 0), ""),
                                      Line("Mostrando", Len(shown), "")>>
                             \o (IF clicked THEN make_request_out(dresp) ELSE <<>>)

AnyDetail == CHOOSE r \in WebDetailResponses : TRUE

\* the user types in the search box
escribir(text, resp) ==
    run_buscar(ss_query, text, w_rows, FALSE, w_org, w_fmt, NoButton, resp, AnyDetail)

\* the user picks a row limit
elegir_rows(rows, resp) ==
    run_buscar(ss_query, w_query, rows, FALSE, w_org, w_fmt, NoButton, resp, AnyDetail)

\* the user clicks a topic button: the topic goes to the session, st.rerun()
click_tema(tema, resp) ==
    run_buscar(Val(tema), w_query, w_rows, FALSE, w_org, w_fmt, NoButton, resp, AnyDetail)

\* the user clicks "Buscar"
click_buscar(resp) ==
    run_buscar(ss_query, w_query, w_rows, TRUE, w_org, w_fmt, NoButton, resp, AnyDetail)

\* the user picks an organization in the filter of the results shown
elegir_org(org_filter, resp) ==
    /\ df # <<>>
    /\ org_filter \in org_options(df)
    /\ run_buscar(ss_query, w_query, w_rows, FALSE, org_filter, w_fmt, NoButton, resp, AnyDetail)

\* the user picks a format in the filter of the results shown
elegir_formato(format_filter, resp) ==
    /\ df # <<>>
    /\ run_buscar(ss_query, w_query, w_rows, FALSE, w_org, format_filter, NoButton, resp, AnyDetail)

\* the user clicks "Ver detalles completos" of a row shown
click_detalles(i, resp, dresp) ==
    /\ i \in 1..Len(df_filtered)
    /\ run_buscar(ss_query, w_query, w_rows, FALSE, w_org, w_fmt, Val(df_filtered[i].id),
                  resp, dresp)

----------------------------------------------------------------------------
(* ba_explorer_app.py: two sessions of the dashboard on one server *)

Sesiones == {1, 2}

\* what one session holds: st.session_state.query, the widgets, and the tables
\* and the detail button of its last run
Sesion(query, text, org, t, shown, seleccion) ==
    [query |-> query, text |-> text, org |-> org, df |-> t, df_filtered |-> shown,
     seleccion |-> seleccion]

NuevaSesion == Sesion(Absent(<<>>), <<>>, "Todas", <<>>, <<>>, NoButton)

\* init_apis: the two clients, whose attributes are set in __init__ only
init_apis ==
    [base_url |-> "https://data.buenosaires.gob.ar/api/3/action",
     user_agent |-> "Buenos Aires Data Explorer Web v2.0"]

SesionResponses ==
    {Response("http", 500, FALSE, Absent(""), Absent(EmptyDict)),
     Response("ok", 200, TRUE, Absent(""), Val(SearchDict({"count", "results"}, TOTAL_MATCHES, <<D1>>))),
     Response("ok", 200, TRUE, Absent(""), Val(SearchDict({"count", "results"}, TOTAL_MATCHES, <<D1, D2>>)))}

\* @st.cache_data: the stored table when the argument was seen before
cached_process_datasets(entries, datasets_data) ==
    IF \E e \in entries : e.input = datasets_data
    THEN {e.output : e \in {x \in entries : x.input = datasets_data}}
    ELSE process_datasets(datasets_data)

\* a store that every session reads, as a module-level variable would be
guardar_global(todas, s, ses) ==
    [o \in DOMAIN todas |-> IF o = s THEN ses ELSE [todas[o] EXCEPT !.query = ses.query]]

\* the script of session s leaves its values in that session's state
guardar(todas, s, ses) == [todas EXCEPT ![s] = ses]

\* One run of the search page for session s, as run_buscar, with the shared
\* clients and the shared cache
sesion_run(s, ss, text, org_sel, detalles, resp) ==
    LET ses == sesiones[s]
        query == web_query(ss, text)
        results == search_packages(resp)
    IN  /\ activa' = s
        /\ UNCHANGED apis
        /\ IF query = <<>> \/ ~(results.keys # {} /\ DictGet(results, "results", <<>>) # <<>>)
           THEN /\ sesiones' = guardar(sesiones, s, Sesion(ss, text, "Todas", <<>>, <<>>, NoButton))
                /\ UNCHANGED cache
           ELSE \E t \in cached_process_datasets(cache, results) :
                  LET org_filter == IF ses.df # <<>> /\ org_options(t) = org_options(ses.df)
                                    THEN org_sel ELSE "Todas"
                      shown == aplicar_filtros(t, org_filter, S_Todos)
                      clicked == detalles.k = "val"
                                 /\ \E i \in 1..Len(shown) : shown[i].id = detalles.v
                  IN  /\ sesiones' = guardar(sesiones, s,
                                         Sesion(ss, text, org_filter, t, shown,
                                                IF clicked THEN detalles ELSE NoButton))
                      /\ cache' = cache \cup {[input |-> results, output |-> t]}

\* the user of session s types in the search box
sesion_escribir(s, text, resp) ==
    sesion_run(s, sesiones[s].query, text, sesiones[s].org, NoButton, resp)

\* the user of session s clicks a topic button
sesion_click_tema(s, tema, resp) ==
    sesion_run(s, Val(tema), sesiones[s].text, sesiones[s].org, NoButton, resp)

\* the user of session s picks an organization in the filter
sesion_elegir_org(s, org_filter, resp) ==
    /\ sesiones[s].df # <<>>
    /\ org_filter \in org_options(sesiones[s].df)
    /\ sesion_run(s, sesiones[s].query, sesiones[s].text, org_filter, NoButton, resp)

\* the user of session s clicks "Ver detalles completos" of a row shown
sesion_click_detalles(s, i, resp) ==
    /\ i \in 1..Len(sesiones[s].df_filtered)
    /\ sesion_run(s, sesiones[s].query, sesiones[s].text, sesiones[s].org,
                  Val(sesiones[s].df_filtered[i].id), resp)

----------------------------------------------------------------------------
(* The filters and the organization ranking on their own *)

\* the datasets the filters are tried on
FilterDatasets ==
    {Dataset(Val("d1"), "n1", org, [i \in 1..Len(fmts) |-> Resource(fmts[i], Absent(""))]) :
        org \in {NoOrganization, Val(Organization(Val("OrgA"))), Val(Organization(Val("OrgB")))},
        fmts \in {<<>>, <<Val(S_CSV)>>, <<Val(S_csv), Val(S_PDF)>>, <<Val(S_GeoJSON)>>,
                  <<Val(S_Excel)>>, <<Absent(<<>>)>>}}

FilterInputs ==
    UNION {process_datasets(SearchDict({"count", "results"}, TOTAL_MATCHES, l)) :
              l \in SeqsUpTo(FilterDatasets, MaxDatasets)}

\* the filters applied to a table
filtrar(org_filter, format_filter) ==
    /\ w_org' = org_filter
    /\ w_fmt' = format_filter
    /\ df_filtered' = aplicar_filtros(df, org_filter, format_filter)
    /\ df_twice' = aplicar_filtros(df_filtered', org_filter, format_filter)
    /\ UNCHANGED <<ss_query, w_query, w_rows, df, web_reqs, web_out>>

\* orgs_sorted of ver_por_organizacion (n = 10) and mostrar_estadisticas (n = 5)
ordenar(n) ==
    /\ o_n' = n
    /\ o_sorted' = top_orgs(o_orgs, n)
    /\ UNCHANGED o_orgs

----------------------------------------------------------------------------
(* File names: clean_filename and descargar_recurso_individual *)

MaxNameLen == 2   \* longest of the short names the file-name functions are tried on

\* `x or ...`: x is there and not empty
Filled(o) == o.k = "val" /\ o.v # <<>>

\* the characters of the model for which str.isalnum() is true
AlnumChars ==
    {"a", "b", "c", "d", "e", "f", "i", "l", "n", "o", "r", "s", "t", "u", "v", "x",
     "A", "C", "D", "E", "F", "G", "J", "N", "O", "P", "S", "V", "0", "1"}

LowerChar(c) ==
    CASE c = "C" -> "c" [] c = "S" -> "s" [] c = "V" -> "v" [] c = "E" -> "e"
      [] c = "O" -> "o" [] c = "X" -> "x" [] c = "L" -> "l" [] c = "A" -> "a"
      [] c = "D" -> "d" [] c = "U" -> "u" [] c = "P" -> "p" [] c = "F" -> "f"
      [] c = "J" -> "j" [] c = "N" -> "n" [] c = "G" -> "g" [] OTHER -> c

\* str.lower()
Lower(s) == [i \in 1..Len(s) |-> LowerChar(s[i])]

\* s.endswith(t)
EndsWith(s, t) == Len(t) <= Len(s) /\ SubSeq(s, Len(s) - Len(t) + 1, Len(s)) = t

\* the loop of clean_filename: a character is kept or becomes '_'
clean_chars(filename) ==
    [i \in 1..Len(filename) |->
        IF filename[i] \in AlnumChars \/ filename[i] \in {" ", "-", "_", "."}
        THEN filename[i] ELSE "_"]

RECURSIVE CollapseSpaces(_)
\* ' '.join(result.split()) on text whose only whitespace is ' ' and that
\* neither starts nor ends with it
CollapseSpaces(s) ==
    IF Len(s) < 2 THEN s
    ELSE IF s[1] = " " /\ s[2] = " " THEN CollapseSpaces(Tail(s))
    ELSE <<s[1]>> \o CollapseSpaces(Tail(s))

\* result.replace(' ', '_')
ReplaceSpaces(s) == [i \in 1..Len(s) |-> IF s[i] = " " THEN "_" ELSE s[i]]

NAME_LIMIT == 50

\* result[:n]
Prefix(s, n) == SubSeq(s, 1, Min(n, Len(s)))

clean_filename(filename) ==
    Prefix(ReplaceSpaces(CollapseSpaces(Strip(clean_chars(filename)))), NAME_LIMIT)

S_recurso == <<"r", "e", "c", "u", "r", "s", "o">>
S_dataset == <<"d", "a", "t", "a", "s", "e", "t">>

\* descargar_recurso_individual without the endswith test: the extension is
\* appended whenever there is a format
nombre_archivo_siempre_extension(resource, dataset_name) ==
    LET name == IF Filled(resource.name) THEN resource.name.v
                ELSE IF Filled(resource.description) THEN resource.description.v
                ELSE S_recurso
        format_type == Lower(IF resource.format.k = "val" THEN resource.format.v ELSE <<>>)
        safe_name == clean_filename(name)
        safe_dataset == clean_filename(IF Filled(dataset_name) THEN dataset_name.v ELSE S_dataset)
    IN  IF resource.format.k = "null"
        THEN [raised |-> TRUE, safe_name |-> <<>>, filename |-> <<>>]
        ELSE [raised |-> FALSE, safe_name |-> safe_name,
              filename |-> IF format_type # <<>>
                           THEN safe_dataset \o <<"_">> \o safe_name \o <<".">> \o format_type
                           ELSE safe_dataset \o <<"_">> \o safe_name]

\* what descargar_recurso_individual computes before it calls download_resource:
\* safe_name and filename, or the AttributeError of None.lower()
nombre_archivo(resource, dataset_name) ==
    LET name == IF Filled(resource.name) THEN resource.name.v
                ELSE IF Filled(resource.description) THEN resource.description.v
                ELSE S_recurso
        format_type == Lower(IF resource.format.k = "val" THEN resource.format.v ELSE <<>>)
        safe_name == clean_filename(name)
        safe_dataset == clean_filename(IF Filled(dataset_name) THEN dataset_name.v ELSE S_dataset)
    IN  IF resource.format.k = "null"
        THEN [raised |-> TRUE, safe_name |-> <<>>, filename |-> <<>>]
        ELSE [raised |-> FALSE, safe_name |-> safe_name,
              filename |-> IF format_type # <<>> /\ ~EndsWith(safe_name, <<".">> \o format_type)
                           THEN safe_dataset \o <<"_">> \o safe_name \o <<".">> \o format_type
                           ELSE safe_dataset \o <<"_">> \o safe_name]

\* "Calle Corrientes #1000 / Datos.csv"
S_calle ==
    <<"C", "a", "l", "l", "e", " ", "C", "o", "r", "r", "i", "e", "n", "t", "e", "s", " ",
      "#", "1", "0", "0", "0", " ", "/", " ", "D", "a", "t", "o", "s", ".", "c", "s", "v">>

\* the characters short names are made of: a letter, the two kinds of
\* whitespace, a kept sign, two signs that are replaced
NameChars == {"a", " ", "\t", ".", "#", "/"}

\* n times the letter a
Letters(n) == [i \in 1..n |-> "a"]

\* the names tried: every short one, the scenario's, names with an extension,
\* names around the limit of 50 characters
Names ==
    SeqsUpTo(NameChars, MaxNameLen)
    \cup {S_calle, <<"a", ".">> \o S_csv, <<"a", ".">> \o S_CSV, <<"a", ".">> \o S_csv \o <<".">> \o S_csv}
    \cup {Letters(n) : n \in {NAME_LIMIT - 1, NAME_LIMIT, NAME_LIMIT + 1}}
    \cup {Letters(NAME_LIMIT - 1) \o <<" ", " ", "b">>}

DatasetNames == {Absent(<<>>), Val(<<>>), Val(<<"d">>), Val(<<"d", "/", " ">>), Val(Letters(NAME_LIMIT + 1))}

FormatHints == {Absent(<<>>), Null(<<>>), Val(<<>>), Val(S_csv), Val(S_CSV), Val(<<"a", "/", "b">>)}

\* a resource as descargar_recurso_individual reads it
NamedResource(name, description, format) ==
    [name |-> name, description |-> description, format |-> format]

NameInputs ==
    {[resource |-> NamedResource(Val(n), Absent(<<>>), f), dataset_name |-> d] :
        n \in Names, f \in FormatHints, d \in DatasetNames}
    \cup {[resource |-> NamedResource(n, Val(<<"d", "e">>), Val(S_csv)), dataset_name |-> Val(<<"d">>)] :
        n \in {Absent(<<>>), Null(<<>>), Val(<<>>)}}
    \cup {[resource |-> NamedResource(Absent(<<>>), Absent(<<>>), f), dataset_name |-> Val(<<"d">>)] :
        f \in FormatHints}

\* clean_filename applied to the resource's name
limpiar ==
    /\ f_op' = "clean_filename"
    /\ UNCHANGED <<dl_vars, ses_vars>>
    /\ f_out' = [raised |-> FALSE,
                 safe_name |-> clean_filename(Get(f_in.resource.name, <<>>)),
                 filename |-> <<>>]
    /\ UNCHANGED f_in

\* descargar_recurso_individual up to the call of download_resource
nombrar ==
    /\ f_op' = "descargar_recurso_individual"
    /\ UNCHANGED <<dl_vars, ses_vars>>
    /\ f_out' = nombre_archivo(f_in.resource, f_in.dataset_name)
    /\ UNCHANGED f_in

----------------------------------------------------------------------------
(* The transport on its own: make_request, make_api_request, download_resource *)

\* the endpoints BuenosAiresCKAN asks make_request for
Endpoints == {"package_list", "package_search", "package_show", "organization_list"}

\* the addresses RealTimeAPI asks make_api_request for
ApiUrls ==
    {"ecobici/gbfs/es/station_status", "ecobici/gbfs/es/station_information",
     "subte/serviceAlerts", "transito/cortes", "normalizar", "BA_Root/datos_utiles",
     "api.waqi.info/feed/buenos-aires"}

DownloadUrls == {"u1", "u2"}

\* the exchanges that end in an exception of urlopen or of reading the response
TransportFailures ==
    {Response("http", c, FALSE, Absent(""), Absent("")) : c \in HttpCodes}
    \cup {Response(k, 0, FALSE, Absent(""), Absent("")) :
              k \in {"url", "url_timeout", "read_timeout", "exc"}}

\* the exchanges whose body is no JSON object
MalformedBodies ==
    {Response("json", 0, FALSE, Absent(""), Absent("")),
     Response("nonobject", 200, FALSE, Absent(""), Val("[]"))}

\* what make_request can meet: a failure, a malformed body, an envelope
CatalogEvents ==
    TransportFailures \cup MalformedBodies
    \cup {Response("ok", 200, FALSE, e, Absent("")) : e \in {Absent(""), Val("Not found")}}
    \cup {Response("ok", 200, TRUE, Absent(""), r) : r \in {Absent(""), Val("result")}}

\* what make_api_request can meet
ApiEvents ==
    TransportFailures \cup MalformedBodies
    \cup {Response("ok", 200, TRUE, Absent(""), Val("body"))}

\* what download_resource can meet
DownloadEvents ==
    TransportFailures \cup {Response("ok", 200, TRUE, Absent(""), Absent(""))}

\* one call of BuenosAiresCKAN.make_request
llamar_make_request ==
    \E endpoint \in Endpoints, resp \in CatalogEvents :
        /\ f_op' = "make_request"
        /\ UNCHANGED <<dl_vars, ses_vars>>
        /\ f_in' = endpoint
        /\ reqs' = <<Request(endpoint, <<>>, 0, "", resp)>>
        /\ printed' = make_request_out(resp)
        /\ f_out' = make_request(resp, "")
        /\ fs_ops' = <<>>
        /\ UNCHANGED <<running, opcion, current_datasets, dataset, detailed_info, en_menu>>
        /\ UNCHANGED <<web_vars, org_vars>>

\* one call of RealTimeAPI.make_api_request
llamar_make_api_request ==
    \E url \in ApiUrls, resp \in ApiEvents :
        /\ f_op' = "make_api_request"
        /\ UNCHANGED <<dl_vars, ses_vars>>
        /\ f_in' = url
        /\ reqs' = <<Request("api", <<>>, 0, url, resp)>>
        /\ printed' = make_api_request_out(resp)
        /\ f_out' = make_api_request(resp, "")
        /\ fs_ops' = <<>>
        /\ UNCHANGED <<running, opcion, current_datasets, dataset, detailed_info, en_menu>>
        /\ UNCHANGED <<web_vars, org_vars>>

\* one call of BuenosAiresCKAN.download_resource
llamar_download_resource ==
    \E url \in DownloadUrls, resp \in DownloadEvents :
        /\ f_op' = "download_resource"
        /\ UNCHANGED <<dl_vars, ses_vars>>
        /\ f_in' = url
        /\ reqs' = <<DownloadRequest(url, resp)>>
        /\ printed' = download_resource_out(url, resp)
        /\ f_out' = download_resource(resp)
        /\ fs_ops' = download_resource_fs(url, resp)
        /\ UNCHANGED <<running, opcion, current_datasets, dataset, detailed_info, en_menu>>
        /\ UNCHANGED <<web_vars, org_vars>>

----------------------------------------------------------------------------
(* BuenosAiresCKAN.download_resource, read by read *)

MaxBody == 4     \* longest body a download is tried on
MaxChunk == 2    \* the most one response.read returns (8192 in the code)

Bytes == {"a", "b"}

Bodies == SeqsUpTo(Bytes, MaxBody)

RECURSIVE Flatten(_)
\* the chunks one after the other
Flatten(chunks) == IF chunks = <<>> THEN <<>> ELSE Head(chunks) \o Flatten(Tail(chunks))

\* urlopen returned and open(filepath, 'wb') created or emptied the file
d_abrir(body) ==
    /\ d_pc # "loop"
    /\ d_pc' = "loop"
    /\ d_body' = body
    /\ d_rest' = body
    /\ d_chunks' = <<>>
    /\ d_file' = Val(<<>>)

\* urlopen raised: the file is not opened
d_rechazar ==
    /\ d_pc # "loop"
    /\ d_pc' = "failed"
    /\ d_body' = <<>>
    /\ d_rest' = <<>>
    /\ d_chunks' = <<>>
    /\ UNCHANGED d_file

\* a read that returns bytes without writing them
d_leer_sin_escribir(n) ==
    /\ d_pc = "loop"
    /\ n \in 1..Min(MaxChunk, Len(d_rest))
    /\ d_chunks' = Append(d_chunks, SubSeq(d_rest, 1, n))
    /\ d_rest' = SubSeq(d_rest, n + 1, Len(d_rest))
    /\ UNCHANGED <<d_pc, d_body, d_file>>

\* chunk = response.read(8192) returned n bytes, n > 0; f.write(chunk)
d_leer(n) ==
    /\ d_pc = "loop"
    /\ n \in 1..Min(MaxChunk, Len(d_rest))
    /\ d_chunks' = Append(d_chunks, SubSeq(d_rest, 1, n))
    /\ d_file' = Val(d_file.v \o SubSeq(d_rest, 1, n))
    /\ d_rest' = SubSeq(d_rest, n + 1, Len(d_rest))
    /\ UNCHANGED <<d_pc, d_body>>

\* response.read returned b'': break, both files closed, return True
d_terminar ==
    /\ d_pc = "loop"
    /\ d_rest = <<>>
    /\ d_chunks' = Append(d_chunks, <<>>)
    /\ d_pc' = "done"
    /\ UNCHANGED <<d_body, d_rest, d_file>>

\* response.read raised (connection reset, timeout, IncompleteRead): the with
\* blocks close the file, the except clause prints and returns False
d_fallar ==
    /\ d_pc = "loop"
    /\ d_pc' = "failed"
    /\ UNCHANGED <<d_body, d_rest, d_chunks, d_file>>

\* Ctrl-C during the loop: KeyboardInterrupt passes the except clauses, the with
\* blocks close the file
d_cancelar ==
    /\ d_pc = "loop"
    /\ d_pc' = "cancelled"
    /\ UNCHANGED <<d_body, d_rest, d_chunks, d_file>>

----------------------------------------------------------------------------
(* MenuExplorer: the real-time handlers (options 7 to 12) *)

\* one exchange of RealTimeAPI.make_api_request with `url`
ApiRequest(url, q, resp) == Request("api", q, 0, url, resp)

\* the failed exchanges the real-time handlers are tried on: make_api_request
\* returns None after each
RealtimeFailures(nothing) ==
    {Response("http", 429, FALSE, Absent(""), Absent(nothing)),
     Response("url_timeout", 0, FALSE, Absent(""), Absent(nothing))}

\* a JSON body came back: an object ("ok") or an array ("nonobject")
RealtimeBodies(bodies) ==
    {Response(IF b.dict THEN "ok" ELSE "nonobject", 200, TRUE, Absent(""), Val(b)) : b \in bodies}

\* a body that lists n things (stations, alerts, road closures); dict is FALSE
\* for a non-empty JSON array
ListBody(dict, n) == [dict |-> dict, n |-> n]

ListResponses ==
    RealtimeFailures(ListBody(TRUE, 0))
    \cup RealtimeBodies({ListBody(TRUE, 0), ListBody(TRUE, 2), ListBody(FALSE, 1)})

\* the answers to get_ecobici_stations, which is only tested for truth
StationsResponses ==
    {Response("http", 429, FALSE, Absent(""), Absent(ListBody(TRUE, 0)))}
    \cup RealtimeBodies({ListBody(TRUE, 2)})

\* a handler that forgets the result set
handler_frame_borra(raised) ==
    /\ running' = ejecutar_sigue(raised)
    /\ fs_ops' = <<>>
    /\ dataset' = NoDataset
    /\ detailed_info' = NoDataset
    /\ current_datasets' = <<>>

\* the frame of every handler besides what it prints and asks for
handler_frame(raised) ==
    /\ running' = ejecutar_sigue(raised)
    /\ fs_ops' = <<>>
    /\ dataset' = NoDataset
    /\ detailed_info' = NoDataset
    /\ UNCHANGED current_datasets

\* option 7: mostrar_transporte_publico up to the prompt of its own menu
mostrar_transporte_publico ==
    /\ running
    /\ en_menu = "principal"
    /\ opcion' = "7"
    /\ en_menu' = "transporte"
    /\ reqs' = <<>>
    /\ printed' = <<Line("TRANSPORTE PUBLICO EN TIEMPO REAL", 0, "")>>
    /\ handler_frame(FALSE)

\* what mostrar_ecobici_status prints after the two calls
ecobici_out(status_data, stations_data) ==
    IF status_data.k # "val" /\ stations_data.k # "val"
    THEN <<Line("No se pudo obtener informacion de Ecobici", 0, "")>>
    ELSE IF status_data.k # "val"
    THEN <<Line("No se pudo obtener el estado actual de las estaciones", 0, "")>>
    ELSE IF ~status_data.v.dict THEN <<>>
    ELSE IF status_data.v.n > 0 THEN <<Line("Estado de estaciones", status_data.v.n, "")>>
    ELSE <<>>

\* status_data.get raises AttributeError on a JSON array
ecobici_raises(status_data) == status_data.k = "val" /\ ~status_data.v.dict

\* choice 1 of the transport menu: mostrar_ecobici_status; an exception leaves
\* the transport menu for ejecutar's handler
mostrar_ecobici_status(statusResp, stationsResp) ==
    LET status_data == make_api_request(statusResp, ListBody(TRUE, 0))
        stations_data == make_api_request(stationsResp, ListBody(TRUE, 0))
        raised == ecobici_raises(status_data)
    IN  /\ running
        /\ en_menu = "transporte"
        /\ UNCHANGED opcion
        /\ en_menu' = IF raised THEN "principal" ELSE "transporte"
        /\ reqs' = <<ApiRequest("ecobici/gbfs/es/station_status", <<>>, statusResp),
                     ApiRequest("ecobici/gbfs/es/station_information", <<>>, stationsResp)>>
        /\ printed' = <<Line("ESTADO DE ECOBICI", 0, "")>>
               \o make_api_request_out(statusResp) \o make_api_request_out(stationsResp)
               \o ecobici_out(status_data, stations_data) \o ejecutar_out(raised)
        /\ handler_frame(raised)

\* what mostrar_subte_status prints after the call
subte_out(subte_data) ==
    IF subte_data.k # "val"
    THEN <<Line("No se pudo obtener informacion del subte", 0, "")>>
    ELSE IF ~subte_data.v.dict THEN <<>>
    ELSE IF subte_data.v.n > 0 THEN <<Line("Alertas activas", subte_data.v.n, "")>>
    ELSE <<Line("No hay alertas activas en el sistema de subte", 0, "")>>

\* choice 2 of the transport menu: mostrar_subte_status
mostrar_subte_status(resp) ==
    LET subte_data == make_api_request(resp, ListBody(TRUE, 0))
        raised == subte_data.k = "val" /\ ~subte_data.v.dict
    IN  /\ running
        /\ en_menu = "transporte"
        /\ UNCHANGED opcion
        /\ en_menu' = IF raised THEN "principal" ELSE "transporte"
        /\ reqs' = <<ApiRequest("subte/serviceAlerts", <<>>, resp)>>
        /\ printed' = <<Line("ESTADO DEL SUBTE", 0, "")>>
               \o make_api_request_out(resp) \o subte_out(subte_data) \o ejecutar_out(raised)
        /\ handler_frame(raised)

\* choice 3 of the transport menu: mostrar_colectivos_info asks nothing
mostrar_colectivos_info ==
    /\ running
    /\ en_menu = "transporte"
    /\ UNCHANGED <<opcion, en_menu>>
    /\ reqs' = <<>>
    /\ printed' = <<Line("INFORMACION DE COLECTIVOS", 0, "")>>
    /\ handler_frame(FALSE)

\* the transport menu: any other choice, and choice 0 or KeyboardInterrupt
transporte_otra(volver) ==
    /\ running
    /\ en_menu = "transporte"
    /\ UNCHANGED opcion
    /\ en_menu' = IF volver THEN "principal" ELSE "transporte"
    /\ reqs' = <<>>
    /\ printed' = IF volver THEN <<>> ELSE <<Line("Opcion invalida.", 0, "")>>
    /\ handler_frame(FALSE)

\* what mostrar_estado_transito prints after the call: a JSON array has no cortes
transito_out(traffic_data) ==
    IF traffic_data.k # "val"
    THEN <<Line("No se pudo obtener informacion de transito", 0, "")>>
    ELSE IF traffic_data.v.dict /\ traffic_data.v.n > 0
    THEN <<Line("Cortes de transito activos", traffic_data.v.n, "")>>
    ELSE <<Line("No hay cortes de transito reportados", 0, "")>>

\* option 8: mostrar_estado_transito
mostrar_estado_transito(resp) ==
    /\ running
    /\ en_menu = "principal"
    /\ UNCHANGED en_menu
    /\ opcion' = "8"
    /\ reqs' = <<ApiRequest("transito/cortes", <<>>, resp)>>
    /\ printed' = <<Line("ESTADO DEL TRANSITO", 0, "")>>
           \o make_api_request_out(resp)
           \o transito_out(make_api_request(resp, ListBody(TRUE, 0)))
    /\ handler_frame(FALSE)

\* option 10: mostrar_datos_meteorologicos; get_weather_data asks nothing and
\* returns the demo record
mostrar_datos_meteorologicos ==
    /\ running
    /\ en_menu = "principal"
    /\ UNCHANGED en_menu
    /\ opcion' = "10"
    /\ reqs' = <<>>
    /\ printed' = <<Line("DATOS METEOROLOGICOS", 0, ""),
                    Line("Datos de demostracion", 0, "18C")>>
    /\ handler_frame(FALSE)

\* the `aqi` of the air-quality feed: missing, an integer, or something else
\* (the feed sends "-" when it has no reading)
Aqi(k, v) == [k |-> k, v |-> v]

AqiValues == {0, 50, 51, 100, 101, 150, 151, 200, 201}

AqiInputs == {Aqi("absent", 0), Aqi("text", 0)} \cup {Aqi("int", v) : v \in AqiValues}

\* the body of the feed; dict is FALSE for a non-empty JSON array
AirBody(dict, status, aqi) == [dict |-> dict, status |-> status, aqi |-> aqi]

NoAir == AirBody(TRUE, Absent(""), Aqi("absent", 0))

AirResponses ==
    RealtimeFailures(NoAir)
    \cup RealtimeBodies({AirBody(TRUE, Val("ok"), a) : a \in AqiInputs})
    \cup RealtimeBodies({AirBody(TRUE, Val("error"), Aqi("text", 0)),
                         AirBody(TRUE, Absent(""), Aqi("int", 50)),
                         AirBody(FALSE, Absent(""), Aqi("absent", 0))})

\* the text an aqi that is no integer is printed as
aqi_text(aqi) == IF aqi.k = "absent" THEN "N/A" ELSE IF aqi.k = "text" THEN "-" ELSE ""

\* mostrar_calidad_aire: the level of an aqi
nivel(aqi) ==
    IF aqi.k # "int" THEN "No disponible"
    ELSE IF aqi.v <= 50 THEN "Bueno"
    ELSE IF aqi.v <= 100 THEN "Moderado"
    ELSE IF aqi.v <= 150 THEN "Danino para grupos sensibles"
    ELSE IF aqi.v <= 200 THEN "Danino"
    ELSE "Muy danino"

\* what mostrar_calidad_aire prints after the call
aire_out(air_data) ==
    IF air_data.k # "val"
    THEN <<Line("No se pudo obtener informacion de calidad del aire", 0, ""),
           Line("Consulta directamente", 0, "https://aqicn.org/city/buenos-aires/es/")>>
    ELSE IF ~air_data.v.dict THEN <<>>
    ELSE IF air_data.v.status = Val("ok")
    THEN <<Line("Indice de Calidad del Aire (AQI)", air_data.v.aqi.v, aqi_text(air_data.v.aqi)),
           Line("Nivel", 0, nivel(air_data.v.aqi))>>
    ELSE <<Line("Usando datos de demostracion", 0, ""),
           Line("AQI estimado", 0, "45-65")>>

\* option 9: mostrar_calidad_aire; air_data.get raises on a JSON array
mostrar_calidad_aire(resp) ==
    LET air_data == make_api_request(resp, NoAir)
        raised == air_data.k = "val" /\ ~air_data.v.dict
    IN  /\ running
        /\ en_menu = "principal"
        /\ UNCHANGED en_menu
        /\ opcion' = "9"
        /\ reqs' = <<ApiRequest("api.waqi.info/feed/buenos-aires", <<>>, resp)>>
        /\ printed' = <<Line("CALIDAD DEL AIRE", 0, "")>>
               \o make_api_request_out(resp) \o aire_out(air_data) \o ejecutar_out(raised)
        /\ handler_frame(raised)

\* what the dashboard's make_api_request shows: a warning for 401 and 429, an
\* error for everything else
web_make_api_request_out(resp) ==
    CASE resp.kind = "http" ->
             IF resp.code = 401 THEN <<Line("API requiere autenticacion", 0, "")>>
             ELSE IF resp.code = 429 THEN <<Line("Limite de requests excedido", 0, "")>>
             ELSE <<Line("Error HTTP", resp.code, "")>>
      [] resp.kind \in {"ok", "nonobject"} -> <<>>
      [] OTHER -> <<Line("Error al conectar con API", 0, "")>>

\* the dashboard's level of an aqi
web_nivel(aqi) ==
    IF aqi.k # "int" THEN "No disponible"
    ELSE IF aqi.v <= 50 THEN "Bueno"
    ELSE IF aqi.v <= 100 THEN "Moderado"
    ELSE "Danino"

\* what the dashboard's air-quality page shows after the call; air_data.get
\* raises on a JSON array and Streamlit shows the exception
web_aire_out(air_data) ==
    IF air_data.k = "val" /\ ~air_data.v.dict
    THEN <<Line("AttributeError", 0, "")>>
    ELSE IF air_data.k = "val" /\ air_data.v.status = Val("ok")
    THEN <<IF air_data.v.aqi.k = "int"
           THEN Line("AQI", air_data.v.aqi.v, "")
           ELSE Line("AQI", 0, "N/A"),
           Line("Nivel", 0, web_nivel(air_data.v.aqi))>>
    ELSE <<Line("Datos de Demostracion", 0, ""),
           Line("AQI Estimado", 0, "45-65")>>

\* the dashboard: "Obtener Calidad del Aire" clicked
click_calidad_aire(resp) ==
    /\ web_reqs' = <<ApiRequest("api.waqi.info/feed/buenos-aires", <<>>, resp)>>
    /\ web_out' = web_make_api_request_out(resp) \o web_aire_out(make_api_request(resp, NoAir))
    /\ UNCHANGED <<ss_query, w_query, w_rows, w_org, w_fmt, df, df_filtered, df_twice>>

\* a coordinate of the geocoder's answer or of the keyboard: missing, null, the
\* empty string, a text that is no number, or a number (as a number or as text)
Coord(k, v) == [k |-> k, v |-> v]

NoCoord == Coord("absent", 0)

\* float(x) succeeds
float_ok(c) == c.k = "num"

\* the truth value of a coordinate
coord_truthy(c) == c.k \in {"text", "num"}

\* the geocoder's body: dict is FALSE for a non-empty JSON array, vacio is TRUE
\* for {}, coordenadas is "absent", "null" or "val"
GeoBody(dict, vacio, coordenadas, lat, lng) ==
    [dict |-> dict, vacio |-> vacio, coordenadas |-> coordenadas, lat |-> lat, lng |-> lng]

NoGeo == GeoBody(TRUE, TRUE, "absent", NoCoord, NoCoord)

GeoPairs ==
    {<<Coord("num", -34), Coord("num", -58)>>,
     <<Coord("num", -34), NoCoord>>,
     <<Coord("text", 0), Coord("num", -58)>>,
     <<Coord("null", 0), Coord("num", -58)>>,
     <<Coord("num", -34), Coord("empty", 0)>>}

GeoResponses ==
    RealtimeFailures(NoGeo)
    \cup RealtimeBodies({NoGeo,
                         GeoBody(FALSE, FALSE, "absent", NoCoord, NoCoord),
                         GeoBody(TRUE, FALSE, "absent", NoCoord, NoCoord),
                         GeoBody(TRUE, FALSE, "null", NoCoord, NoCoord)})
    \cup RealtimeBodies({GeoBody(TRUE, FALSE, "val", p[1], p[2]) : p \in GeoPairs})

\* the answers to get_useful_data
UsefulResponses ==
    RealtimeFailures(ListBody(TRUE, 0))
    \cup RealtimeBodies({ListBody(TRUE, 0), ListBody(TRUE, 1), ListBody(FALSE, 1)})

TypedAddresses == {<<>>, <<" ">>, <<" ", "C", "1", " ">>}

TypedCoords == {Coord("num", -34), Coord("text", 0), Coord("empty", 0)}

\* geocode_address and get_useful_data as requests
GeocodeRequest(address, resp) == ApiRequest("normalizar", address, resp)

UsefulRequest(lat, lng, resp) == ApiRequest("BA_Root/datos_utiles", <<lat.v, lng.v>>, resp)

\* the geocoder's answer is truthy
geo_truthy(geo_data) == geo_data.k = "val" /\ ~geo_data.v.vacio

\* mostrar_datos_utiles_ubicacion
mostrar_datos_utiles_ubicacion(data) ==
    IF data.k # "val" \/ (data.v.dict /\ data.v.n = 0)
    THEN <<Line("No se pudieron obtener datos de la ubicacion", 0, "")>>
    ELSE IF data.v.dict
    THEN <<Line("INFORMACION DE LA UBICACION", 0, ""), Line("Barrio", 0, "")>>
    ELSE <<Line("INFORMACION DE LA UBICACION", 0, ""),
           Line("Datos en formato no esperado", 0, "")>>

geocodificacion_sin_comprobar(geo_data) == geo_truthy(geo_data) /\ geo_data.v.dict

\* mostrar_geocodificacion reaches get_useful_data: the geocoder answered an
\* object whose coordenadas hold a lat and a lng that float() accepts
geocodificacion_consulta(geo_data) ==
    /\ geo_truthy(geo_data)
    /\ geo_data.v.dict
    /\ geo_data.v.coordenadas = "val"
    /\ geo_data.v.lat.k # "absent" /\ geo_data.v.lng.k # "absent"
    /\ float_ok(geo_data.v.lat) /\ float_ok(geo_data.v.lng)

\* the requests of mostrar_geocodificacion
geocodificacion_reqs(address, resp, useful) ==
    IF address = <<>> THEN <<>>
    ELSE <<GeocodeRequest(address, resp)>>
         \o (IF geocodificacion_consulta(make_api_request(resp, NoGeo))
             THEN <<UsefulRequest(resp.result.v.lat, resp.result.v.lng, useful)>>
             ELSE <<>>)

\* what mostrar_geocodificacion prints
geocodificacion_out(address, resp, useful) ==
    LET geo_data == make_api_request(resp, NoGeo)
        useful_data == make_api_request(useful, ListBody(TRUE, 0))
    IN  IF address = <<>> THEN <<Line("Debes ingresar una direccion", 0, "")>>
        ELSE <<Line("Geocodificando", Len(address), "")>> \o make_api_request_out(resp)
             \o (IF ~geo_truthy(geo_data)
                 THEN <<Line("No se pudo geocodificar la direccion", 0, "")>>
                 ELSE IF ~geo_data.v.dict
                 THEN <<Line("Formato de respuesta inesperado", 0, "")>>
                 ELSE <<Line("Direccion normalizada", 0, "")>>
                      \o (IF geo_data.v.coordenadas # "val" THEN <<>>
                          ELSE <<Line("Coordenadas", 0, "")>>
                               \o (IF geo_data.v.lat.k = "absent" \/ geo_data.v.lng.k = "absent"
                                   THEN <<>>
                                   ELSE IF ~geocodificacion_consulta(geo_data)
                                   THEN <<Line("No se pudieron obtener datos adicionales", 0, "")>>
                                   ELSE make_api_request_out(useful)
                                        \o (IF useful_data.k = "val"
                                               /\ ~(useful_data.v.dict /\ useful_data.v.n = 0)
                                            THEN mostrar_datos_utiles_ubicacion(useful_data)
                                            ELSE <<>>))))

\* option 11: mostrar_geocodificacion
mostrar_geocodificacion(typed, resp, useful) ==
    /\ running
    /\ en_menu = "principal"
    /\ UNCHANGED en_menu
    /\ opcion' = "11"
    /\ reqs' = geocodificacion_reqs(Strip(typed), resp, useful)
    /\ printed' = <<Line("GEOCODIFICACION DE DIRECCIONES", 0, ""),
                    Line("Ingresa una direccion en CABA", 0, "")>>
           \o geocodificacion_out(Strip(typed), resp, useful)
    /\ handler_frame(FALSE)

\* mostrar_servicios_ubicacion, by address, reaches get_useful_data: lat and lng
\* are truthy and float() accepts them
servicios_consulta(geo_data) ==
    /\ geo_truthy(geo_data)
    /\ geo_data.v.dict
    /\ geo_data.v.coordenadas # "null"
    /\ coord_truthy(geo_data.v.lat) /\ coord_truthy(geo_data.v.lng)
    /\ float_ok(geo_data.v.lat) /\ float_ok(geo_data.v.lng)

\* mostrar_servicios_ubicacion, by address, raises: None.get on a null
\* coordenadas, float() on a text that is no number
servicios_raises(address, geo_data) ==
    /\ address # <<>>
    /\ geo_truthy(geo_data)
    /\ geo_data.v.dict
    /\ \/ geo_data.v.coordenadas = "null"
       \/ /\ coord_truthy(geo_data.v.lat) /\ coord_truthy(geo_data.v.lng)
          /\ ~(float_ok(geo_data.v.lat) /\ float_ok(geo_data.v.lng))

\* the requests of mostrar_servicios_ubicacion, by address
servicios_reqs(address, resp, useful) ==
    IF address = <<>> THEN <<>>
    ELSE <<GeocodeRequest(address, resp)>>
         \o (IF servicios_consulta(make_api_request(resp, NoGeo))
             THEN <<UsefulRequest(resp.result.v.lat, resp.result.v.lng, useful)>>
             ELSE <<>>)

\* what mostrar_servicios_ubicacion prints, by address
servicios_out(address, resp, useful) ==
    LET geo_data == make_api_request(resp, NoGeo)
    IN  IF address = <<>> THEN <<>>
        ELSE make_api_request_out(resp)
             \o (IF ~(geo_truthy(geo_data) /\ geo_data.v.dict)
                 THEN <<Line("No se pudo geocodificar la direccion", 0, "")>>
                 ELSE IF servicios_raises(address, geo_data) THEN <<>>
                 ELSE IF ~servicios_consulta(geo_data)
                 THEN <<Line("No se pudieron obtener coordenadas", 0, "")>>
                 ELSE make_api_request_out(useful)
                      \o mostrar_datos_utiles_ubicacion(
                             make_api_request(useful, ListBody(TRUE, 0))))

\* option 12, choice 1: mostrar_servicios_ubicacion by address
servicios_por_direccion(typed, resp, useful) ==
    LET raised == servicios_raises(Strip(typed), make_api_request(resp, NoGeo))
    IN  /\ running
        /\ en_menu = "principal"
        /\ UNCHANGED en_menu
        /\ opcion' = "12"
        /\ reqs' = servicios_reqs(Strip(typed), resp, useful)
        /\ printed' = <<Line("SERVICIOS POR UBICACION", 0, ""),
                        Line("Selecciona una opcion (1-2)", 1, ""),
                        Line("Ingresa direccion", 0, "")>>
               \o servicios_out(Strip(typed), resp, useful) \o ejecutar_out(raised)
        /\ handler_frame(raised)

\* option 12, choice 2: mostrar_servicios_ubicacion by coordinates
servicios_por_coordenadas(lat, lng, useful) ==
    LET ok == float_ok(lat) /\ float_ok(lng)
    IN  /\ running
        /\ en_menu = "principal"
        /\ UNCHANGED en_menu
        /\ opcion' = "12"
        /\ reqs' = IF ok THEN <<UsefulRequest(lat, lng, useful)>> ELSE <<>>
        /\ printed' = <<Line("SERVICIOS POR UBICACION", 0, ""),
                        Line("Selecciona una opcion (1-2)", 2, ""),
                        Line("Latitud", 0, ""), Line("Longitud", 0, "")>>
               \o (IF ok
                   THEN make_api_request_out(useful)
                        \o mostrar_datos_utiles_ubicacion(
                               make_api_request(useful, ListBody(TRUE, 0)))
                   ELSE <<Line("Coordenadas invalidas", 0, "")>>)
        /\ handler_frame(FALSE)

\* option 12, any other choice
servicios_otra ==
    /\ running
    /\ en_menu = "principal"
    /\ UNCHANGED en_menu
    /\ opcion' = "12"
    /\ reqs' = <<>>
    /\ printed' = <<Line("SERVICIOS POR UBICACION", 0, ""),
                    Line("Selecciona una opcion (1-2)", 0, ""),
                    Line("Opcion invalida", 0, "")>>
    /\ handler_frame(FALSE)

----------------------------------------------------------------------------
(* Descriptions: process_datasets and mostrar_lista_datasets on `notes` *)

MaxNotes == 151   \* longest description the two functions are tried on

S_sin_descripcion ==
    <<"S", "i", "n", " ", "d", "e", "s", "c", "r", "i", "p", "c", "i", "o", "n">>

S_ellipsis == <<".", ".", ".">>

DESC_LIMIT == 150
NOTES_LIMIT == 100

DigitChars == <<"0", "1", "2", "3", "4", "5", "6", "7", "8", "9">>

\* a description of n characters, no two neighbours alike
NoteText(n) == [i \in 1..n |-> DigitChars[(i % 10) + 1]]

\* the `notes` of a dataset: key missing, null, or a text
NotesInputs ==
    {Absent(<<>>), Null(<<>>)} \cup {Val(NoteText(n)) : n \in 0..MaxNotes}

\* process_datasets: the 'descripcion' of a row,
\* (notes[:150] + '...') if notes else 'Sin descripción'
descripcion(notes) ==
    IF Filled(notes) THEN Prefix(notes.v, DESC_LIMIT) \o S_ellipsis
    ELSE S_sin_descripcion

\* mostrar_lista_datasets: the notes line of a dataset; len(None) raises
lista_notes(notes) ==
    IF notes.k = "null" THEN [raised |-> TRUE, text |-> <<>>]
    ELSE LET text == Get(notes, S_sin_descripcion)
         IN  [raised |-> FALSE,
              text |-> IF Len(text) > NOTES_LIMIT
                       THEN Prefix(text, NOTES_LIMIT) \o S_ellipsis
                       ELSE text]

\* process_datasets on one dataset's notes
describir_tabla ==
    \E notes \in NotesInputs :
        /\ f_in' = notes
        /\ f_op' = "process_datasets"
        /\ UNCHANGED <<dl_vars, ses_vars>>
        /\ f_out' = [raised |-> FALSE, text |-> descripcion(notes)]

\* mostrar_lista_datasets on one dataset's notes
describir_lista ==
    \E notes \in NotesInputs :
        /\ f_in' = notes
        /\ f_op' = "mostrar_lista_datasets"
        /\ UNCHANGED <<dl_vars, ses_vars>>
        /\ f_out' = lista_notes(notes)

----------------------------------------------------------------------------
(* Formats: the four places that read a resource's format *)

MaxFormatLen == 3   \* longest format string the four places are tried on

FormatChars == {"c", "S", "v"}

\* the `format` of a resource: key missing, null, or a text (maybe empty)
FormatInputs ==
    {Absent(<<>>), Null(<<>>)} \cup {Val(t) : t \in SeqsUpTo(FormatChars, MaxFormatLen)}

\* r.get('format', 'N/A').upper() of mostrar_lista_datasets,
\* mostrar_detalles_completos and descargar_recursos_dataset; None.upper() raises
format_upper(fmt) ==
    IF fmt.k = "null" THEN [raised |-> TRUE, text |-> <<>>]
    ELSE [raised |-> FALSE, text |-> Upper(Get(fmt, S_NA))]

\* r.get('format', 'N/A') of process_datasets; the None of a null format makes
\* ', '.join raise
format_tabla(fmt) ==
    IF fmt.k = "null" THEN [raised |-> TRUE, text |-> <<>>]
    ELSE [raised |-> FALSE, text |-> Get(fmt, S_NA)]

\* the format shown in the dataset list
formato_lista ==
    \E fmt \in FormatInputs :
        /\ f_in' = fmt
        /\ f_op' = "mostrar_lista_datasets"
        /\ UNCHANGED <<dl_vars, ses_vars>>
        /\ f_out' = format_upper(fmt)

\* the format shown in the detail view
formato_detalles ==
    \E fmt \in FormatInputs :
        /\ f_in' = fmt
        /\ f_op' = "mostrar_detalles_completos"
        /\ UNCHANGED <<dl_vars, ses_vars>>
        /\ f_out' = format_upper(fmt)

\* the format shown in the download list
formato_descarga ==
    \E fmt \in FormatInputs :
        /\ f_in' = fmt
        /\ f_op' = "descargar_recursos_dataset"
        /\ UNCHANGED <<dl_vars, ses_vars>>
        /\ f_out' = format_upper(fmt)

\* the format kept in the table the dashboard filters
formato_tabla ==
    \E fmt \in FormatInputs :
        /\ f_in' = fmt
        /\ f_op' = "process_datasets"
        /\ UNCHANGED <<dl_vars, ses_vars>>
        /\ f_out' = format_tabla(fmt)

----------------------------------------------------------------------------
(* The specifications *)

InitCli ==
    /\ running = TRUE
    /\ opcion = ""
    /\ current_datasets = <<>>
    /\ reqs = <<>>
    /\ printed = <<>>
    /\ dataset = NoDataset
    /\ detailed_info = NoDataset
    /\ fs_ops = <<>>
    /\ en_menu = "principal"

InitWeb ==
    /\ ss_query = Absent(<<>>)
    /\ w_query = <<>>
    /\ w_rows = ROWS_DEFAULT
    /\ w_org = "Todas"
    /\ w_fmt = S_Todos
    /\ df = <<>>
    /\ df_filtered = <<>>
    /\ df_twice = <<>>
    /\ web_reqs = <<>>
    /\ web_out = <<>>

InitOrgs ==
    /\ o_orgs = <<>>
    /\ o_n = 0
    /\ o_sorted = <<>>

\* no download under way, no file
InitDescarga ==
    /\ d_pc = "idle"
    /\ d_body = <<>>
    /\ d_rest = <<>>
    /\ d_chunks = <<>>
    /\ d_file = Absent(<<>>)

\* two new sessions, an empty cache, the clients as init_apis built them
InitSesiones ==
    /\ sesiones = [s \in Sesiones |-> NuevaSesion]
    /\ activa = 1
    /\ cache = {}
    /\ apis = init_apis

InitFn ==
    /\ f_in = <<>>
    /\ f_op = ""
    /\ f_out = <<>>
    /\ InitDescarga
    /\ InitSesiones

Init == InitCli /\ InitWeb /\ InitOrgs /\ InitFn

\* the terminal session: MenuExplorer.ejecutar
Next ==
    \/ \E typed \in TypedQueries, resp \in SearchResponses :
          buscar_por_tema(typed, resp) /\ UNCHANGED <<web_vars, org_vars, fn_vars>>
    \/ \E resp \in SearchResponses :
          listar_recientes(resp) /\ UNCHANGED <<web_vars, org_vars, fn_vars>>
    \/ \E orgsResp \in OrgResponses :
          \E choice \in Choices(Len(top_orgs(get_organizations(orgsResp), TOP_MENU))) :
              ver_por_organizacion(orgsResp, choice) /\ UNCHANGED <<web_vars, org_vars, fn_vars>>
    \/ \E resp \in DetailResponses, choice \in Choices(Len(current_datasets)) :
          ver_detalles_dataset(choice, resp) /\ UNCHANGED <<web_vars, org_vars, fn_vars>>
    \/ \E resp \in DetailResponses, choice \in Choices(Len(current_datasets)) :
          descargar_recursos(choice, resp) /\ UNCHANGED <<web_vars, org_vars, fn_vars>>
    \/ \E resp \in StatsResponses, orgsResp \in OrgResponses :
          mostrar_estadisticas(resp, orgsResp) /\ UNCHANGED <<web_vars, org_vars, fn_vars>>
    \/ salir /\ UNCHANGED <<web_vars, org_vars, fn_vars>>
    \/ interrumpir /\ UNCHANGED <<web_vars, org_vars, fn_vars>>
    \/ mostrar_transporte_publico /\ UNCHANGED <<web_vars, org_vars, fn_vars>>
    \/ \E statusResp \in ListResponses, stationsResp \in StationsResponses :
          mostrar_ecobici_status(statusResp, stationsResp)
              /\ UNCHANGED <<web_vars, org_vars, fn_vars>>
    \/ \E resp \in ListResponses :
          mostrar_subte_status(resp) /\ UNCHANGED <<web_vars, org_vars, fn_vars>>
    \/ mostrar_colectivos_info /\ UNCHANGED <<web_vars, org_vars, fn_vars>>
    \/ \E volver \in BOOLEAN :
          transporte_otra(volver) /\ UNCHANGED <<web_vars, org_vars, fn_vars>>
    \/ \E resp \in ListResponses :
          mostrar_estado_transito(resp) /\ UNCHANGED <<web_vars, org_vars, fn_vars>>
    \/ mostrar_datos_meteorologicos /\ UNCHANGED <<web_vars, org_vars, fn_vars>>
    \/ \E typed \in TypedAddresses, resp \in GeoResponses, useful \in UsefulResponses :
          mostrar_geocodificacion(typed, resp, useful)
              /\ UNCHANGED <<web_vars, org_vars, fn_vars>>
    \/ \E typed \in TypedAddresses, resp \in GeoResponses, useful \in UsefulResponses :
          servicios_por_direccion(typed, resp, useful)
              /\ UNCHANGED <<web_vars, org_vars, fn_vars>>
    \/ \E lat \in TypedCoords, lng \in TypedCoords, useful \in UsefulResponses :
          servicios_por_coordenadas(lat, lng, useful)
              /\ UNCHANGED <<web_vars, org_vars, fn_vars>>
    \/ servicios_otra /\ UNCHANGED <<web_vars, org_vars, fn_vars>>
    \/ \E resp \in AirResponses :
          mostrar_calidad_aire(resp) /\ UNCHANGED <<web_vars, org_vars, fn_vars>>

Spec == Init /\ [][Next]_vars

\* one dashboard session on the search page
NextWeb ==
    \/ \E text \in WebQueries, resp \in WebSearchResponses :
          escribir(text, resp) /\ UNCHANGED <<cli_vars, org_vars, fn_vars>>
    \/ \E rows \in RowsOptions, resp \in WebSearchResponses :
          elegir_rows(rows, resp) /\ UNCHANGED <<cli_vars, org_vars, fn_vars>>
    \/ \E tema \in Temas, resp \in WebSearchResponses :
          click_tema(tema, resp) /\ UNCHANGED <<cli_vars, org_vars, fn_vars>>
    \/ \E resp \in WebSearchResponses :
          click_buscar(resp) /\ UNCHANGED <<cli_vars, org_vars, fn_vars>>
    \/ \E org_filter \in org_options(df), resp \in WebSearchResponses :
          elegir_org(org_filter, resp) /\ UNCHANGED <<cli_vars, org_vars, fn_vars>>
    \/ \E format_filter \in fmt_options, resp \in WebSearchResponses :
          elegir_formato(format_filter, resp) /\ UNCHANGED <<cli_vars, org_vars, fn_vars>>
    \/ \E i \in 1..Len(df_filtered), resp \in WebSearchResponses, dresp \in WebDetailResponses :
          click_detalles(i, resp, dresp) /\ UNCHANGED <<cli_vars, org_vars, fn_vars>>

SpecWeb == Init /\ [][NextWeb]_vars

\* the filters, tried on every table of FilterInputs
InitFiltro ==
    /\ InitCli
    /\ InitOrgs
    /\ InitFn
    /\ ss_query = Absent(<<>>)
    /\ w_query = <<>>
    /\ w_rows = ROWS_DEFAULT
    /\ w_org = "Todas"
    /\ w_fmt = S_Todos
    /\ df \in FilterInputs
    /\ df_filtered = df
    /\ df_twice = df
    /\ web_reqs = <<>>
    /\ web_out = <<>>

NextFiltro ==
    \E org_filter \in org_options(df), format_filter \in fmt_options :
        filtrar(org_filter, format_filter) /\ UNCHANGED <<cli_vars, org_vars, fn_vars>>

SpecFiltro == InitFiltro /\ [][NextFiltro]_vars

\* the ranking, tried on every organization list of up to MaxOrgs organizations
InitOrden ==
    /\ InitCli
    /\ InitWeb
    /\ InitFn
    /\ o_orgs \in OrgLists(MaxOrgs, {Absent(0), Val(0), Val(1), Val(2)})
    /\ o_n = 0
    /\ o_sorted = <<>>

NextOrden ==
    \E n \in {TOP_MENU, TOP_ESTADISTICAS} : ordenar(n) /\ UNCHANGED <<cli_vars, web_vars, fn_vars>>

SpecOrden == InitOrden /\ [][NextOrden]_vars

\* the file-name functions, tried on every input of NameInputs
InitNombre ==
    /\ InitCli
    /\ InitWeb
    /\ InitOrgs
    /\ f_in \in NameInputs
    /\ f_op = ""
    /\ f_out = [raised |-> FALSE, safe_name |-> <<>>, filename |-> <<>>]
    /\ InitDescarga
    /\ InitSesiones

NextNombre ==
    \/ limpiar /\ UNCHANGED <<cli_vars, web_vars, org_vars>>
    \/ nombrar /\ UNCHANGED <<cli_vars, web_vars, org_vars>>

SpecNombre == InitNombre /\ [][NextNombre]_vars

\* the three transport functions, each met with every exchange
NextTransporte ==
    \/ llamar_make_request
    \/ llamar_make_api_request
    \/ llamar_download_resource

SpecTransporte == Init /\ [][NextTransporte]_vars

\* two sessions of the dashboard, their runs interleaved
NextSesiones ==
    \/ \E s \in Sesiones, text \in WebQueries, resp \in SesionResponses :
          sesion_escribir(s, text, resp)
              /\ UNCHANGED <<cli_vars, web_vars, org_vars, f_in, f_op, f_out, dl_vars>>
    \/ \E s \in Sesiones, tema \in Temas, resp \in SesionResponses :
          sesion_click_tema(s, tema, resp)
              /\ UNCHANGED <<cli_vars, web_vars, org_vars, f_in, f_op, f_out, dl_vars>>
    \/ \E s \in Sesiones, resp \in SesionResponses :
        \E org_filter \in org_options(sesiones[s].df) :
          sesion_elegir_org(s, org_filter, resp)
              /\ UNCHANGED <<cli_vars, web_vars, org_vars, f_in, f_op, f_out, dl_vars>>
    \/ \E s \in Sesiones, i \in 1..MaxWebDatasets, resp \in SesionResponses :
          sesion_click_detalles(s, i, resp)
              /\ UNCHANGED <<cli_vars, web_vars, org_vars, f_in, f_op, f_out, dl_vars>>

SpecSesiones == Init /\ [][NextSesiones]_vars

\* download_resource, one read at a time, on every body
NextDescarga ==
    \/ \E body \in Bodies :
          d_abrir(body) /\ UNCHANGED <<cli_vars, web_vars, org_vars, f_in, f_op, f_out, ses_vars>>
    \/ d_rechazar /\ UNCHANGED <<cli_vars, web_vars, org_vars, f_in, f_op, f_out, ses_vars>>
    \/ \E n \in 1..MaxChunk :
          d_leer(n) /\ UNCHANGED <<cli_vars, web_vars, org_vars, f_in, f_op, f_out, ses_vars>>
    \/ d_terminar /\ UNCHANGED <<cli_vars, web_vars, org_vars, f_in, f_op, f_out, ses_vars>>
    \/ d_fallar /\ UNCHANGED <<cli_vars, web_vars, org_vars, f_in, f_op, f_out, ses_vars>>
    \/ d_cancelar /\ UNCHANGED <<cli_vars, web_vars, org_vars, f_in, f_op, f_out, ses_vars>>

\* the loop of download_resource goes on: a read that can return does return
ReadGoesOn ==
    \E n \in 1..MaxChunk :
        d_leer(n) /\ UNCHANGED <<cli_vars, web_vars, org_vars, f_in, f_op, f_out, ses_vars>>

ReadEnds == d_terminar /\ UNCHANGED <<cli_vars, web_vars, org_vars, f_in, f_op, f_out, ses_vars>>

SpecDescarga == Init /\ [][NextDescarga]_vars /\ WF_vars(ReadGoesOn) /\ WF_vars(ReadEnds)

\* the two places that shorten a description, each on every `notes`
NextDescripcion ==
    \/ describir_tabla /\ UNCHANGED <<cli_vars, web_vars, org_vars>>
    \/ describir_lista /\ UNCHANGED <<cli_vars, web_vars, org_vars>>

SpecDescripcion == Init /\ [][NextDescripcion]_vars

\* the four places that read a format, each on every `format`
NextFormato ==
    \/ formato_lista /\ UNCHANGED <<cli_vars, web_vars, org_vars>>
    \/ formato_detalles /\ UNCHANGED <<cli_vars, web_vars, org_vars>>
    \/ formato_descarga /\ UNCHANGED <<cli_vars, web_vars, org_vars>>
    \/ formato_tabla /\ UNCHANGED <<cli_vars, web_vars, org_vars>>

SpecFormato == Init /\ [][NextFormato]_vars

\* the air-quality handler of the terminal and the air-quality page of the
\* dashboard, each on every answer of the feed
NextAire ==
    \/ \E resp \in AirResponses :
          mostrar_calidad_aire(resp) /\ UNCHANGED <<web_vars, org_vars, fn_vars>>
    \/ \E resp \in AirResponses :
          click_calidad_aire(resp) /\ UNCHANGED <<cli_vars, org_vars, fn_vars>>

SpecAire == Init /\ [][NextAire]_vars

----------------------------------------------------------------------------
(* The terminal session: properties of MenuExplorer under Spec *)

\* the lines printed, as a set
Printed(out) == {out[i] : i \in 1..Len(out)}

\* the envelope carries a result the adapters hand on: success is true and
\* `result` is neither null nor empty
Usable(resp) == resp.kind = "ok" /\ resp.success /\ resp.result.k = "val"

\* C1: whenever a handler's call to the catalog or a download fails (an HTTP
\* error, a connection failure, a malformed body, a success:false envelope),
\* current_datasets, the only field the session keeps, is after the handler what
\* it was before; the dataset the handler selected, if any, is still an item
\* of it; and the menu loop goes on, so the same option can be taken again.
C1_FailedCallKeepsSession ==
    [][(\E i \in 1..Len(reqs') : reqs'[i].failed)
          => /\ current_datasets' = current_datasets
             /\ dataset' = NoDataset
                \/ \E i \in 1..Len(current_datasets) : dataset' = Val(current_datasets[i])
             /\ running']_vars

\* a topic search failed after an earlier one had loaded results
C1_Witness ==
    /\ opcion = "1"
    /\ reqs # <<>> /\ reqs[1].failed
    /\ current_datasets # <<>>
    /\ running

C3_ResultSetWithinLimit ==
    \A i \in 1..Len(reqs) :
        (opcion \in {"1", "2", "3"} /\ reqs[i].endpoint = "package_search" /\ Usable(reqs[i].resp))
            => Len(current_datasets) <= reqs[i].rows

\* C4: when options 4 or 5 end without a dataset selected (the list is empty, or
\* what was typed is no index of the list), the handler reports the failure,
\* sends no request and leaves current_datasets as it was.
C4_InvalidSelectionFails ==
    [][(opcion' \in {"4", "5"} /\ dataset' = NoDataset)
          => /\ \E line \in Printed(printed') :
                    line.msg \in {"Seleccion invalida.", "Primero debes buscar datasets."}
             /\ reqs' = <<>>
             /\ current_datasets' = current_datasets]_vars

C10_OrganizationSearchAsSearch ==
    [][(opcion' = "3" /\ Len(reqs') = 2) =>
         LET e == reqs'[2]
             result == search_packages(e.resp)
         IN  /\ e = SearchRequest(Strip(e.q), ROWS_TEMA, e.resp)
             /\ current_datasets' = tema_datasets(result, current_datasets)
             /\ \A line \in Printed(tema_out(result)) :
                    line.msg # "Encontrados" => line \in Printed(printed')]_vars

----------------------------------------------------------------------------
(* The dashboard's filters under SpecFiltro and SpecWeb, the ranking under SpecOrden *)

\* C6: the filters applied to the table they produced give that table again.
C6_FilterIdempotent == df_twice = df_filtered

\* both filters are set and narrowed a table without emptying it
C6_Witness ==
    /\ w_org # "Todas"
    /\ w_fmt # S_Todos
    /\ df_filtered # <<>>
    /\ Len(df_filtered) < Len(df)
    /\ df_twice = df_filtered

\* s is t with some of its elements left out, the others in t's order
RECURSIVE IsSubSeq(_, _)
IsSubSeq(s, t) ==
    IF s = <<>> THEN TRUE
    ELSE IF t = <<>> THEN FALSE
    ELSE IF Head(s) = Head(t) THEN IsSubSeq(Tail(s), Tail(t))
    ELSE IsSubSeq(s, Tail(t))

\* C7: a run of the search page that a change of the organization or the format
\* filter starts sends no package_search, leaves the table of results as it
\* was, and shows rows of that table in its order.
C7_FilterIsClientSide ==
    [][(\/ \E org_filter \in org_options(df), resp \in WebSearchResponses :
              elegir_org(org_filter, resp)
        \/ \E format_filter \in fmt_options, resp \in WebSearchResponses :
              elegir_formato(format_filter, resp))
          => /\ \A i \in 1..Len(web_reqs') : web_reqs'[i].endpoint # "package_search"
             /\ df' = df
             /\ IsSubSeq(df_filtered', df')]_vars

\* C8: the rows shown are the rows of the table whose organization is the one
\* chosen (if one is) and whose formats, upper-cased, contain the format token
\* chosen (if one is; the token upper-cased like them), in the table's order.
C8_FilterOnNormalizedFormats ==
    LET Passes(row) ==
            /\ w_org = "Todas" \/ row.organizacion = w_org
            /\ w_fmt = S_Todos \/ Contains(Upper(row.formatos), Upper(w_fmt))
    IN  df_filtered = SelectSeq(df, Passes)

\* the place of an organization in the upstream list
Position(org) == CHOOSE k \in 1..Len(o_orgs) : o_orgs[k] = org

\* a comes before b in the ranking: more datasets, or as many and earlier upstream
Before(a, b) ==
    \/ package_count(a) > package_count(b)
    \/ package_count(a) = package_count(b) /\ Position(a) < Position(b)

\* C9: the ranking of n holds min(n, length) organizations of the upstream
\* list, each once, every one before the next by count (a missing count is 0)
\* and, for equal counts, by upstream position; every organization left out
\* comes after all those kept.
C9_TopNStableDescending ==
    o_n # 0 =>
        LET kept == {o_sorted[i] : i \in 1..Len(o_sorted)}
            all == {o_orgs[i] : i \in 1..Len(o_orgs)}
        IN  /\ Len(o_sorted) = Min(o_n, Len(o_orgs))
            /\ kept \subseteq all
            /\ Cardinality(kept) = Len(o_sorted)
            /\ \A i \in 1..(Len(o_sorted) - 1) : Before(o_sorted[i], o_sorted[i + 1])
            /\ \A a \in kept, b \in all \ kept : Before(a, b)

\* the top five of more than five organizations, with two of equal count (one
\* of them missing its count) that the sort had to move up past a smaller one
C9_Witness ==
    /\ o_n = TOP_ESTADISTICAS
    /\ Len(o_orgs) > TOP_ESTADISTICAS
    /\ Len(o_sorted) = TOP_ESTADISTICAS
    /\ \E i \in 1..(Len(o_sorted) - 1) :
          /\ package_count(o_sorted[i]) = package_count(o_sorted[i + 1])
          /\ o_sorted[i].package_count.k = "absent"
          /\ o_sorted[i + 1].package_count.k = "val"
    /\ o_sorted # SubSeq(o_orgs, 1, TOP_ESTADISTICAS)

----------------------------------------------------------------------------
(* File names under SpecNombre *)

\* the characters a file name may hold
AllowedChars == AlnumChars \cup {" ", "-", "_", "."}

\* C11: the file name descargar_recurso_individual hands to download_resource
\* has at most 50 characters, all of them alphanumerics, space, hyphen,
\* underscore or dot.
C11_FilenameBounded ==
    (f_op = "descargar_recurso_individual" /\ ~f_out.raised) =>
        /\ Len(f_out.filename) <= NAME_LIMIT
        /\ \A i \in 1..Len(f_out.filename) : f_out.filename[i] \in AllowedChars

Whitespace == {" ", "\t"}

RECURSIVE SkipWhitespace(_)
SkipWhitespace(s) ==
    IF s # <<>> /\ Head(s) \in Whitespace THEN SkipWhitespace(Tail(s)) ELSE s

RECURSIVE Sanitized(_)
\* the stated policy: alphanumerics, hyphen, underscore and dot stay, a run of
\* whitespace becomes one underscore, any other character becomes an underscore
Sanitized(s) ==
    IF s = <<>> THEN <<>>
    ELSE IF Head(s) \in Whitespace THEN <<"_">> \o Sanitized(SkipWhitespace(s))
    ELSE IF Head(s) \in AlnumChars \cup {"-", "_", "."} THEN <<Head(s)>> \o Sanitized(Tail(s))
    ELSE <<"_">> \o Sanitized(Tail(s))

\* C12: clean_filename returns the first 50 characters of its argument
\* sanitized by the stated policy.
C12_CleanFilenamePolicy ==
    f_op = "clean_filename" =>
        f_out.safe_name = Prefix(Sanitized(Get(f_in.resource.name, <<>>)), NAME_LIMIT)

----------------------------------------------------------------------------
(* Downloads and the transport under Spec *)

\* how many elements of the sequence satisfy Test
Count(seq, Test(_)) == Cardinality({i \in 1..Len(seq) : Test(seq[i])})

IsDownload(r) == r.endpoint = "download"
IsMakedirs(o) == o.op = "makedirs"
IsNoUrlLine(l) == l.msg = "Este recurso no tiene URL de descarga."
HasUrl(resource) == resource.url.k = "val" /\ resource.url.v # ""
HasNoUrl(resource) == ~HasUrl(resource)

\* C14: in the download handler a resource without URL (missing or empty) ends
\* with "Este recurso no tiene URL de descarga." and nothing else: every
\* download request carries a URL, there are no more requests than resources
\* with a URL, the directory is made once per request and never without one,
\* and a file is opened only for a URL that was requested.
C14_NoUrlNoRequest ==
    (opcion = "5" /\ detailed_info.k = "val") =>
        LET resources == detailed_info.v.resources
        IN  /\ \A i \in 1..Len(reqs) : IsDownload(reqs[i]) => reqs[i].id # ""
            /\ Count(reqs, IsDownload) <= Count(resources, HasUrl)
            /\ Count(printed, IsNoUrlLine) <= Count(resources, HasNoUrl)
            /\ Count(fs_ops, IsMakedirs) = Count(reqs, IsDownload)
            /\ \A i \in 1..Len(fs_ops) :
                   fs_ops[i].op = "open" =>
                       \E j \in 1..Len(reqs) : IsDownload(reqs[j]) /\ reqs[j].id = fs_ops[i].url
            /\ (Count(printed, IsNoUrlLine) > 0 /\ Count(reqs, IsDownload) = 0) => fs_ops = <<>>

\* "download all" on a dataset with one resource that has a URL and one whose
\* URL is empty: the second is reported, the only request is for the first
C14_Witness ==
    /\ opcion = "5"
    /\ detailed_info.k = "val"
    /\ \E i \in 1..Len(detailed_info.v.resources) : detailed_info.v.resources[i].url = Val("")
    /\ Count(printed, IsNoUrlLine) = 1
    /\ Count(reqs, IsDownload) = 1
    /\ Count(fs_ops, IsMakedirs) = 1

----------------------------------------------------------------------------
(* The transport under SpecTransporte *)

\* the kind of TransportError a printed line reports, "" for any other line
TransportErrorOf(line) ==
    CASE line.msg \in {"Error HTTP", "Error HTTP al descargar"} -> "HttpStatus"
      [] line.msg \in {"Error de conexion", "Error de conexion al descargar"} -> "ConnectionFailed"
      [] line.msg \in {"Error al decodificar JSON", "Error al decodificar respuesta"} -> "MalformedBody"
      [] OTHER -> ""

\* the kind of TransportError an exchange is
ExpectedError(resp) ==
    CASE resp.kind = "http" -> "HttpStatus"
      [] resp.kind = "url" -> "ConnectionFailed"
      [] resp.kind \in {"url_timeout", "read_timeout"} -> "Timeout"
      [] OTHER -> "MalformedBody"

\* the function returned its failure value
ReturnedFailure ==
    IF f_op = "download_resource" THEN f_out = FALSE ELSE f_out = Absent("")

\* C15: a call of make_request, make_api_request or download_resource that met
\* an HTTP error status, a connection failure, a timeout or (the two that
\* decode a body) an undecodable or non-object body returns its failure value
\* and reports exactly one kind of TransportError, the one of that failure: a
\* timeout is reported as Timeout.
C15_FailuresClassified ==
    (/\ f_op \in {"make_request", "make_api_request", "download_resource"}
     /\ reqs[1].resp.kind \in {"http", "url", "url_timeout", "read_timeout", "json", "nonobject"})
    => /\ ReturnedFailure
       /\ {TransportErrorOf(printed[i]) : i \in 1..Len(printed)} \ {""}
              = {ExpectedError(reqs[1].resp)}

\* the two advisory warnings of make_api_request
AdvisoryLines ==
    {Line("API requiere autenticacion", 0, ""), Line("Limite de requests excedido", 0, "")}

\* C17: a call made for an adapter (make_request for the catalog adapters,
\* make_api_request for the real-time ones) that is answered with HTTP 401 or
\* 429 prints an advisory warning, a line other than the generic "Error HTTP"
\* report, and returns the empty result.
C17_AdvisoryOn401And429 ==
    (/\ f_op \in {"make_request", "make_api_request"}
     /\ reqs[1].resp.kind = "http"
     /\ reqs[1].resp.code \in {401, 429})
    => /\ f_out = Absent("")
       /\ \E i \in 1..Len(printed) : printed[i] \in AdvisoryLines

----------------------------------------------------------------------------
(* One request per adapter call, and the main loop, under Spec *)

\* two logged requests ask for the same thing
SameCall(r1, r2) ==
    /\ r1.endpoint = r2.endpoint
    /\ r1.id = r2.id
    /\ r1.rows = r2.rows
    /\ r1.q = r2.q

IsSearch(r) == r.endpoint = "package_search"
IsShow(r) == r.endpoint = "package_show"
IsOrgList(r) == r.endpoint = "organization_list"

\* C16: a menu operation calls each catalog adapter at most once and
\* download_resource at most once per resource, and each of these calls is one
\* HTTP request whatever its outcome: no request is logged twice, there is at
\* most one package_search, one package_show and one organization_list, and no
\* more downloads than resources that have a URL.
C16_OneRequestPerCall ==
    /\ \A i, j \in 1..Len(reqs) : i < j => ~SameCall(reqs[i], reqs[j])
    /\ Count(reqs, IsSearch) <= 1
    /\ Count(reqs, IsShow) <= 1
    /\ Count(reqs, IsOrgList) <= 1
    /\ Count(reqs, IsDownload) <=
           (IF detailed_info.k = "val" THEN Count(detailed_info.v.resources, HasUrl) ELSE 0)

\* a download failed and was asked for once; a search failed and was asked once
C16_Witness ==
    \/ /\ opcion = "5"
       /\ Count(reqs, IsDownload) = 1
       /\ \E i \in 1..Len(reqs) : IsDownload(reqs[i]) /\ reqs[i].resp.kind = "http"
    \/ /\ opcion = "1"
       /\ Len(reqs) = 1
       /\ Failed(reqs[1].resp)

\* the goodbye of option 0 and of a user interrupt
Goodbye == <<Line("Hasta luego!", 0, "")>>

\* C18: the main loop is still running after every menu operation, whatever
\* the upstream answered and whatever the handler raised on the data (the
\* exception is reported and the loop continues); it has ended only after the
\* goodbye of the exit option or of a user interrupt.
C18_NoErrorEndsSession ==
    /\ running \/ printed = Goodbye
    /\ (Line("Continuando...", 0, "") \in Printed(printed)) => running

\* a handler raised on a null format (the list was stored, the error reported)
\* and the loop goes on
C18_Witness ==
    /\ running
    /\ opcion = "1"
    /\ current_datasets \in NullLists
    /\ Line("Continuando...", 0, "") \in Printed(printed)

----------------------------------------------------------------------------
(* Descriptions under SpecDescripcion *)

\* C19: the description a dataset is shown with is the first 150 characters of
\* its notes followed by "..." when the notes are longer than 150 characters,
\* the notes as they are when they have 1 to 150 characters, and the sentinel
\* "Sin descripcion" when the notes are absent, null or empty; it is never empty.
C19_DescriptionNormalized ==
    f_op \in {"process_datasets", "mostrar_lista_datasets"} =>
        /\ ~f_out.raised
        /\ f_out.text # <<>>
        /\ f_out.text =
               IF Filled(f_in)
               THEN IF Len(f_in.v) > DESC_LIMIT
                    THEN SubSeq(f_in.v, 1, DESC_LIMIT) \o S_ellipsis
                    ELSE f_in.v
               ELSE S_sin_descripcion

----------------------------------------------------------------------------
(* Formats under SpecFormato *)

\* C20: in the dataset list, the detail view, the download list and the
\* dashboard's table the format of a resource is its upstream format in upper
\* case, and "N/A" when the format is absent, null or empty.
C20_FormatNormalized ==
    f_op \in {"mostrar_lista_datasets", "mostrar_detalles_completos",
              "descargar_recursos_dataset", "process_datasets"} =>
        /\ ~f_out.raised
        /\ f_out.text = IF Filled(f_in) THEN Upper(f_in.v) ELSE S_NA

----------------------------------------------------------------------------
(* The result set and the operations on it, under Spec *)

\* the identifier a dataset of the result set is asked for: its id, its name
\* when the id is missing or empty
IdOf(d) == IF d.id.k = "val" /\ d.id.v # "" THEN d.id.v ELSE d.name

\* C27: ver_detalles_dataset and descargar_recursos on an empty result set issue
\* no request and leave result set, selection and detail as they were; every
\* package_show request they issue is for a dataset of the current result set,
\* which becomes the selection.
C27_DetailOnlyFromResultSet ==
    [][opcion' \in {"4", "5"} =>
         /\ current_datasets = <<>> =>
                /\ reqs' = <<>>
                /\ fs_ops' = <<>>
                /\ UNCHANGED <<current_datasets, dataset, detailed_info>>
         /\ \A i \in 1..Len(reqs') :
                IsShow(reqs'[i]) =>
                    \E j \in 1..Len(current_datasets) :
                        /\ reqs'[i].id = IdOf(current_datasets[j])
                        /\ dataset' = Val(current_datasets[j])]_vars

\* detail was asked for before any result set was loaded
C27_Witness ==
    /\ opcion \in {"4", "5"}
    /\ current_datasets = <<>>
    /\ reqs = <<>>
    /\ printed = <<Line("Primero debes buscar datasets.", 0, "")>>

----------------------------------------------------------------------------
(* Air quality under SpecAire *)

\* the terminal shows the placeholder values
CliPlaceholder == Line("AQI estimado", 0, "45-65") \in Printed(printed)

\* the dashboard shows the placeholder values
WebPlaceholder == Line("AQI Estimado", 0, "45-65") \in Printed(web_out)

\* the answer carries status "ok"
StatusOk(resp) ==
    resp.kind = "ok" /\ resp.result.k = "val" /\ resp.result.v.status = Val("ok")

\* C23: when the air-quality call yields no object with status "ok" (another
\* status, or no response) the terminal and the dashboard show the placeholder
\* values; with status "ok" and an aqi that is no integer both show the level
\* "No disponible"; with status "ok" and an integer neither shows placeholders.
C23_AirQualityFallback ==
    /\ (opcion = "9" /\ reqs[1].resp.kind # "nonobject") =>
           IF StatusOk(reqs[1].resp)
           THEN /\ ~CliPlaceholder
                /\ reqs[1].resp.result.v.aqi.k # "int"
                       => Line("Nivel", 0, "No disponible") \in Printed(printed)
           ELSE CliPlaceholder
    /\ (web_reqs # <<>> /\ web_reqs[1].resp.kind # "nonobject") =>
           IF StatusOk(web_reqs[1].resp)
           THEN /\ ~WebPlaceholder
                /\ web_reqs[1].resp.result.v.aqi.k # "int"
                       => Line("Nivel", 0, "No disponible") \in Printed(web_out)
           ELSE WebPlaceholder

----------------------------------------------------------------------------
(* Geocode-then-lookup under Spec *)

IsGeocode(r) == r.endpoint = "api" /\ r.id = "normalizar"

IsUseful(r) == r.endpoint = "api" /\ r.id = "BA_Root/datos_utiles"

\* the last handler was one that geocodes an address and then looks it up
PorDireccion ==
    \/ opcion = "11"
    \/ opcion = "12" /\ Line("Ingresa direccion", 0, "") \in Printed(printed)

\* C21: in the handlers that geocode an address and then look up the services of
\* the place, a lookup request is the second request, after a geocoder request
\* for a non-empty address whose answer was an object holding a numeric lat and
\* lng, and it asks for exactly these coordinates; with an empty address no
\* request is made, and a failed geocoder call or an answer without usable
\* coordinates is followed by no lookup.
C21_LookupAfterGeocode ==
    PorDireccion =>
        /\ \A i \in DOMAIN reqs :
               /\ IsGeocode(reqs[i]) => i = 1 /\ reqs[i].q # <<>>
               /\ IsUseful(reqs[i]) =>
                      /\ i = 2
                      /\ IsGeocode(reqs[1])
                      /\ reqs[1].resp.kind = "ok"
                      /\ reqs[1].resp.result.v.coordenadas = "val"
                      /\ reqs[1].resp.result.v.lat.k = "num"
                      /\ reqs[1].resp.result.v.lng.k = "num"
                      /\ reqs[i].q = <<reqs[1].resp.result.v.lat.v,
                                       reqs[1].resp.result.v.lng.v>>
        /\ Len(reqs) <= 2
        /\ Line("Debes ingresar una direccion", 0, "") \in Printed(printed) => reqs = <<>>
        /\ Line("No se pudo geocodificar la direccion", 0, "") \in Printed(printed)
               => Len(reqs) = 1

\* the geocoder returned coordinates and the lookup followed
C21_Witness ==
    /\ opcion = "11"
    /\ Len(reqs) = 2
    /\ IsGeocode(reqs[1])
    /\ IsUseful(reqs[2])
    /\ reqs[2].q = <<-34, -58>>

----------------------------------------------------------------------------
(* The frame of the result set under Spec *)

SearchOptions == {"1", "2", "3"}

\* C24: self.current_datasets is empty when the session starts, and a step that
\* changes it is a step of buscar_por_tema, listar_recientes or
\* ver_por_organizacion: the detail view, the download, the statistics and every
\* real-time handler leave it as it was.
C24_OnlySearchChangesResultSet ==
    /\ current_datasets = <<>>
    /\ [][current_datasets' # current_datasets => opcion' \in SearchOptions]_vars

\* a loaded result set is still there after a real-time handler ran
C24_Witness ==
    /\ opcion \in {"7", "8", "9", "10", "11", "12"}
    /\ reqs # <<>>
    /\ current_datasets # <<>>

----------------------------------------------------------------------------
(* "Descargar todos" under Spec *)

\* the user chose "Descargar todos" in the menu of the resources of the detail
DescargarTodos ==
    /\ opcion = "5"
    /\ detailed_info.k = "val"
    /\ Line("Selecciona que descargar", Len(detailed_info.v.resources) + 1, "")
           \in Printed(printed)

IsStartLine(l) == l.msg = "Descargando"

IsEndLine(l) ==
    l.msg \in {"Descarga completada", "Error HTTP al descargar",
               "Error de conexion al descargar", "Error al descargar"}

----------------------------------------------------------------------------
(* A success:true envelope with a falsy result, under Spec *)

\* the messages by which a search handler reports that it got nothing
NoResultReports ==
    {"No se pudieron obtener resultados.", "No se pudieron obtener los datasets.",
     "No se pudieron obtener las organizaciones."}

\* success:true with a null, missing or empty result
FalsyResult(resp) == resp.kind = "ok" /\ resp.success /\ resp.result.k # "val"

\* C29: when the last catalog call of a search handler (topic, recent, by
\* organization) was answered success:true with a falsy result, the handler
\* reports that nothing could be obtained and self.current_datasets stays as it
\* was; when a search was answered with a result object that has no datasets in
\* its results list, self.current_datasets becomes the empty list.
C29_FalsyResultIsFailure ==
    [][(opcion' \in SearchOptions /\ reqs' # <<>>) =>
          LET last == reqs'[Len(reqs')]
          IN  /\ FalsyResult(last.resp) =>
                     /\ current_datasets' = current_datasets
                     /\ \E l \in Printed(printed') : l.msg \in NoResultReports
              /\ (IsSearch(last) /\ ~Failed(last.resp) /\ last.resp.result.k = "val"
                      /\ DictGet(last.resp.result.v, "results", <<>>) = <<>>)
                     => current_datasets' = <<>>]_vars

----------------------------------------------------------------------------
(* The stored topic of the dashboard, under SpecWeb *)

\* C30: once st.session_state.query holds a topic, every run of the search page
\* sends package_search with the topic the session holds after that run,
\* whatever the search box holds; the stored topic is never removed, and it
\* changes only to another topic, in a run that leaves the search box and the
\* row limit as they were.
C30_StoredTopicWins ==
    [][ss_query.k = "val" =>
          /\ ss_query'.k = "val"
          /\ web_reqs' # <<>>
          /\ IsSearch(web_reqs'[1])
          /\ web_reqs'[1].q = ss_query'.v
          /\ ss_query' # ss_query =>
                 /\ ss_query'.v \in Temas
                 /\ w_query' = w_query
                 /\ w_rows' = w_rows]_vars

\* a topic is stored, something else is in the search box, the search was for
\* the topic
C30_Witness ==
    /\ ss_query.k = "val"
    /\ w_query # <<>>
    /\ w_query # ss_query.v
    /\ web_reqs # <<>>
    /\ web_reqs[1].q = ss_query.v

----------------------------------------------------------------------------
(* download_resource under SpecDescarga *)

\* C22: when download_resource ends without success, by an exception or by
\* Ctrl-C, the target file is absent or empty.
C22_NoPartialFile ==
    d_pc \in {"failed", "cancelled"} => d_file.k = "absent" \/ d_file.v = <<>>

ChunksInOrder ==
    /\ d_file.v = Flatten(d_chunks)
    /\ d_file.v \o d_rest = d_body
    /\ \A i \in DOMAIN d_chunks :
           /\ Len(d_chunks[i]) <= MaxChunk
           /\ d_chunks[i] = <<>> => i = Len(d_chunks) /\ d_pc = "done"

\* C26: while download_resource reads, and when it has returned True, the file
\* holds the chunks read so far one after the other, each at most one read's
\* size and none empty but the last of a finished download, which is what ended
\* it; a finished download has written the whole body (nothing for an empty
\* body); and the loop always ends.
C26_ChunkedDownloadTerminates ==
    /\ [](d_pc \in {"loop", "done"} => ChunksInOrder)
    /\ [](d_pc = "done" =>
              /\ d_chunks # <<>>
              /\ d_chunks[Len(d_chunks)] = <<>>
              /\ d_file = Val(d_body))
    /\ (d_pc = "loop" ~> d_pc # "loop")

\* a body of two reads was downloaded
C26_Witness ==
    /\ d_pc = "done"
    /\ Len(d_chunks) = 3
    /\ Len(d_chunks[1]) = MaxChunk
    /\ d_file = Val(d_body)

----------------------------------------------------------------------------
(* Two sessions under SpecSesiones *)

\* C25: a run of one session's script leaves the query, the tables and the
\* selection of the other session as they were; the cached clients are never
\* changed; and an entry of the cache of process_datasets is a table of its
\* argument alone, one per argument.
C25_SessionsShareNothing ==
    /\ [][\A o \in Sesiones : o # activa' => sesiones'[o] = sesiones[o]]_vars
    /\ [](apis = init_apis)
    /\ [](\A e \in cache :
              /\ e.output \in process_datasets(e.input)
              /\ \A x \in cache : x.input = e.input => x = e)

\* both sessions hold a topic and a table of their own, and one of them a
\* selection
C25_Witness ==
    /\ sesiones[1].query.k = "val"
    /\ sesiones[2].query.k = "val"
    /\ sesiones[1].query # sesiones[2].query
    /\ sesiones[1].df # <<>>
    /\ sesiones[2].df # <<>>
    /\ sesiones[1].df # sesiones[2].df
    /\ sesiones[2].seleccion.k = "val"
    /\ cache # {}

====
